---------------------------- MODULE Spec2Model ----------------------------
(***************************************************************************)
(* Cerberus client-side ledger-state reconciliation engine.                *)
(*                                                                         *)
(*   - Connection Manager   lib/xrpl/client.ts   (ensureXrplConnected)     *)
(*   - Credential Resolver  lib/xrpl/credentials.ts (findCredential)       *)
(*   - Funnel State Machine hooks/useUserStatus.ts (useUserStatus.refresh) *)
(*                                                                         *)
(* JavaScript values whose dynamic type the code inspects (typeof) are     *)
(* modelled as tagged values [t |-> type, v |-> value].  null and the      *)
(* empty string are both falsy in every test the code makes on addresses   *)
(* and messages, so an absent address or message is the empty string.      *)
(***************************************************************************)
EXTENDS Integers, Sequences, FiniteSets, TLC

(***************************************************************************)
(* Bounds of the model.                                                    *)
(***************************************************************************)
MaxRefresh == 2      \* refresh evaluations that may overlap in one context
NCallers == 3        \* abstract callers of ensureXrplConnected (SpecConn)
MaxTicks == 2        \* seconds the wall clock may advance
MaxListLen == 2      \* length of an account_objects answer (SpecResolver)

(***************************************************************************)
(* Program constants.                                                      *)
(***************************************************************************)
RIPPLE_EPOCH_UNIX_SECONDS == 946684800
LSF_ACCEPTED == 65536                       \* 0x00010000

CERBERUS_CREDENTIAL_TYPE_STRING ==
  <<"C","e","r","b","e","r","u","s","V","e","r","i","f","i","e","d">>
CERB_CURRENCY_TEXT == <<"C","E","R","B">>

(***************************************************************************)
(* Tagged JavaScript values.                                               *)
(***************************************************************************)
Str(s) == [t |-> "string", v |-> s]
Num(n) == [t |-> "number", v |-> n]
Undefined == [t |-> "undefined", v |-> 0]
IsString(x) == x.t = "string"
IsNumber(x) == x.t = "number"

(***************************************************************************)
(* Text encoding.  A text is the sequence of its characters; TextEncoder   *)
(* maps an ASCII character to its code.                                    *)
(***************************************************************************)
Utf8Byte(c) ==
  CASE c = "B" -> 66 [] c = "C" -> 67 [] c = "D" -> 68 [] c = "E" -> 69
    [] c = "R" -> 82 [] c = "S" -> 83 [] c = "U" -> 85 [] c = "V" -> 86
    [] c = "d" -> 100 [] c = "e" -> 101 [] c = "f" -> 102 [] c = "i" -> 105
    [] c = "r" -> 114 [] c = "s" -> 115 [] c = "u" -> 117 [] c = "b" -> 98

TextEncode(text) == [i \in 1..Len(text) |-> Utf8Byte(text[i])]

HexDigits ==
  <<"0","1","2","3","4","5","6","7","8","9","A","B","C","D","E","F">>

\* b.toString(16).padStart(2, "0"), upper-cased
HexByte(b) == HexDigits[(b \div 16) + 1] \o HexDigits[(b % 16) + 1]

RECURSIVE HexOfBytes(_)
HexOfBytes(bytes) ==
  IF bytes = <<>> THEN "" ELSE HexByte(Head(bytes)) \o HexOfBytes(Tail(bytes))

RECURSIVE Concat(_)
Concat(text) == IF text = <<>> THEN "" ELSE Head(text) \o Concat(Tail(text))

utf8ToHexUpper(input) == HexOfBytes(TextEncode(input))

cerberusCredentialTypeHex == utf8ToHexUpper(CERBERUS_CREDENTIAL_TYPE_STRING)

\* currency.ts: 3-character codes pass through; other texts of at most 8
\* bytes are placed at offset 12 of a 20-byte buffer (the inputs of the model
\* are non-empty and hold no white space, so trim() changes nothing).
toXrplCurrencyCode(input) ==
  IF Len(input) = 3
    THEN Concat(input)
    ELSE LET bytes == TextEncode(input)
             buf == [i \in 1..20 |->
                       IF i > 12 /\ i <= 12 + Len(bytes) THEN bytes[i - 12] ELSE 0]
         IN HexOfBytes(buf)

cerbCurrencyCode == toXrplCurrencyCode(CERB_CURRENCY_TEXT)


(***************************************************************************)
(* State.                                                                  *)
(***************************************************************************)
VARIABLES
  clock,            \* Date.now(): [sec, ms], i.e. sec * 1000 + ms milliseconds
  accountObjects,   \* ledger: account -> its validated account_objects
  accountLines,     \* ledger: account -> its validated trust lines
  connected,        \* client.isConnected()
  connectInFlight,  \* client.ts connectInFlight: 0 (null) or the pending connect
  connectOps,       \* underlying client.connect() operations not yet settled
  waiters,          \* <<caller, op>>: callers suspended at `await connectInFlight`
  connectLog,       \* history: connects issued / callers joined since the last settle
  calls,            \* SpecConn: caller -> outcome of its ensureXrplConnected call
  finds,            \* SpecResolver: call -> findCredential activation
  walletAddress,    \* useUserStatus option: the active identity ("" when absent)
  state,            \* useUserStatus: ComplianceFunnelState
  issuerAddress,    \* useUserStatus: issuerAddress ("" for null)
  isRefreshing,     \* useUserStatus: isRefreshing
  lastUpdatedAt,    \* useUserStatus: lastUpdatedAt (<<>> for null)
  error,            \* useUserStatus: error ("" for null)
  runs,             \* refresh activations: slot -> activation record
  hist,             \* history of the funnel (read order, applied results)
  localStorage,     \* shared scope: saved seed, recent addresses, demo users
  sessionStorage,   \* tab scope: browsing context -> its session seed ("" when absent)
  sessionWallet,    \* WalletProvider state: context -> sessionWallet (<<>> for null)
  tabs,             \* context -> open?, pending operation, effect and history fields
  funded            \* wallets funded so far by the funding collaborator

connVars == <<connected, connectInFlight, connectOps, waiters>>
ledgerVars == <<accountObjects, accountLines>>
hookVars == <<walletAddress, state, issuerAddress, isRefreshing, lastUpdatedAt, error>>
vars == <<clock, accountObjects, accountLines, connected, connectInFlight,
          connectOps, waiters, connectLog, calls, finds, walletAddress, state,
          issuerAddress, isRefreshing, lastUpdatedAt, error, runs, hist,
          localStorage, sessionStorage, sessionWallet, tabs, funded>>

storeVars == <<localStorage, sessionStorage, sessionWallet, tabs, funded>>

\* the identity store where no browsing context is modelled
StoreUnused ==
  /\ localStorage = <<>>
  /\ sessionStorage = <<>>
  /\ sessionWallet = <<>>
  /\ tabs = <<>>
  /\ funded = 0

(***************************************************************************)
(* Time.                                                                   *)
(***************************************************************************)
unixToRippleTime(unixSeconds) == unixSeconds - RIPPLE_EPOCH_UNIX_SECONDS

\* Math.floor(Date.now() / 1000) of Date.now() = sec * 1000 + ms, 0 <= ms < 1000
FloorSeconds(dateNow) == dateNow.sec

currentRippleTime(dateNow) == unixToRippleTime(FloorSeconds(dateNow))

(***************************************************************************)
(* Credential objects.                                                     *)
(***************************************************************************)
isCredentialAccepted(flags) ==
  IsNumber(flags) /\ (flags.v \div LSF_ACCEPTED) % 2 = 1

\* An optional value is <<>> (null) or <<x>>.
None == <<>>
Some(x) == <<x>>

\* Mutant: the entry type is not tested.
parseCredentialObject_AnyEntryType(o) ==
  IF o.t # "object" THEN None
  ELSE LET r == o.v IN
    IF ~IsString(r.index) \/ ~IsString(r.Subject)
       \/ ~IsString(r.Issuer) \/ ~IsString(r.CredentialType)
      THEN None
      ELSE Some([index |-> r.index.v,
                 LedgerEntryType |-> "Credential",
                 Subject |-> r.Subject.v,
                 Issuer |-> r.Issuer.v,
                 CredentialType |-> r.CredentialType.v,
                 Flags |-> r.Flags,
                 Expiration |-> IF IsNumber(r.Expiration)
                                  THEN r.Expiration ELSE Undefined])

\* o: a ledger entry, [t |-> "object", v |-> fields] or a non-object value.
parseCredentialObject(o) ==
  IF o.t # "object" THEN None
  ELSE LET r == o.v IN
    IF r.LedgerEntryType # Str("Credential") THEN None
    ELSE IF ~IsString(r.index) \/ ~IsString(r.Subject)
            \/ ~IsString(r.Issuer) \/ ~IsString(r.CredentialType)
      THEN None
      ELSE Some([index |-> r.index.v,
                 LedgerEntryType |-> "Credential",
                 Subject |-> r.Subject.v,
                 Issuer |-> r.Issuer.v,
                 CredentialType |-> r.CredentialType.v,
                 Flags |-> r.Flags,
                 Expiration |-> IF IsNumber(r.Expiration)
                                  THEN r.Expiration ELSE Undefined])

\* Mutant: the boundary second still counts as valid.
isNonExpiredCredential_Inclusive(credential, dateNow) ==
  IF credential.Expiration = Undefined THEN TRUE
  ELSE credential.Expiration.v >= currentRippleTime(dateNow)

isNonExpiredCredential(credential, dateNow) ==
  IF credential.Expiration = Undefined THEN TRUE
  ELSE credential.Expiration.v > currentRippleTime(dateNow)

\* Mutant: the credential type is not compared.
CredentialMatches_NoTypeCheck(c, opts, dateNow) ==
  /\ c.Issuer = opts.issuerAddress
  /\ c.Subject = opts.ownerAddress
  /\ isNonExpiredCredential(c, dateNow)

\* The predicate both lookups of findCredential pass to Array.prototype.find.
CredentialMatches(c, opts, dateNow) ==
  /\ c.Issuer = opts.issuerAddress
  /\ c.Subject = opts.ownerAddress
  /\ c.CredentialType = opts.credentialTypeHex
  /\ isNonExpiredCredential(c, dateNow)

\* objects.map(parseCredentialObject).filter(x => x !== null)
RECURSIVE ParsedObjects(_)
ParsedObjects(objects) ==
  IF objects = <<>> THEN <<>>
  ELSE parseCredentialObject(Head(objects)) \o ParsedObjects(Tail(objects))

\* .find(pred) ?? null
FindMatch(objects, opts, dateNow) ==
  LET parsed == ParsedObjects(objects)
      hits == {i \in 1..Len(parsed) : CredentialMatches(parsed[i], opts, dateNow)}
  IN IF hits = {} THEN None
     ELSE Some(parsed[CHOOSE i \in hits : \A j \in hits : i <= j])


(***************************************************************************)
(* Connection Manager (client.ts).                                         *)
(*                                                                         *)
(* An underlying client.connect() is an operation op in connectOps; the    *)
(* promise stored in connectInFlight is identified by the op whose .then   *)
(* and .catch handlers it carries.  A caller is whoever awaits             *)
(* ensureXrplConnected: a refresh activation, or an abstract caller.       *)
(***************************************************************************)
MaxOps == NCallers + MaxRefresh
Ops == 1..MaxOps

NewOp == CHOOSE op \in Ops : op \notin connectOps /\ \A o \in Ops \ connectOps : op <= o

\* line 223: if (client.isConnected()) return;
ReturnsAtOnce == connected

\* line 225: if (!connectInFlight) Mutant: the marker is never consulted.
StartsConnect_NoGuard == TRUE
StartsConnect == connectInFlight = 0

\* lines 229 and 232: both handlers clear the marker.  Mutant: only .then does.
MarkerAfterSettle_KeptOnFailure(ok) == IF ok THEN 0 ELSE connectInFlight
\* Mutant: only .catch does.
MarkerAfterSettle_KeptOnSuccess(ok) == IF ok THEN connectInFlight ELSE 0
MarkerAfterSettle(ok) == 0

\* lines 228-234: .then resolves, .catch rethrows.  Mutant: .catch swallows.
WaiterOutcome_Swallowed(ok) == "resolved"
WaiterOutcome(ok) == IF ok THEN "resolved" ELSE "rejected"

\* connectLog (history): the connects issued and the callers that joined while
\* disconnected since the last settle, and how the last settled attempt ended.
InitLog == [connects |-> 0, callers |-> {}, prev |-> "none"]
SettledLog(ok) ==
  [connects |-> 0, callers |-> {}, prev |-> IF ok THEN "ok" ELSE "failed"]

\* the log after a call by c: c joined if it has to wait, and a connect was
\* issued if the call added an operation
CalledLog(c) ==
  IF ReturnsAtOnce THEN connectLog
  ELSE [connectLog EXCEPT !.connects = @ + Cardinality(connectOps' \ connectOps),
                          !.callers = @ \cup {c}]

\* The synchronous part of ensureXrplConnected(client), called by c.
ensureXrplConnected(c) ==
  IF ReturnsAtOnce
    THEN UNCHANGED connVars
    ELSE /\ UNCHANGED connected
         /\ IF StartsConnect
              THEN /\ connectOps' = connectOps \cup {NewOp}
                   /\ connectInFlight' = NewOp
                   /\ waiters' = waiters \cup {<<c, NewOp>>}
              ELSE /\ UNCHANGED connectOps
                   /\ UNCHANGED connectInFlight
                   /\ waiters' = waiters \cup {<<c, connectInFlight>>}

WaitersOf(op) == {w[1] : w \in {x \in waiters : x[2] = op}}

\* The underlying connect op settles; its handlers run and its waiters resume.
ConnectSettles(op, ok) ==
  /\ op \in connectOps
  /\ connectOps' = connectOps \ {op}
  /\ connected' = (ok \/ connected)
  /\ connectInFlight' = MarkerAfterSettle(ok)
  /\ waiters' = {w \in waiters : w[2] # op}

\* The web socket closes (observed by client.isConnected()).
ConnectionDrops ==
  /\ connected
  /\ connected' = FALSE
  /\ UNCHANGED <<connectInFlight, connectOps, waiters>>

(***************************************************************************)
(* SpecConn: the Connection Manager under NCallers abstract callers.       *)
(* calls[c].st is idle, waiting, resolved or rejected; calls[c].att and    *)
(* calls[c].ok are the attempt c awaited and how it ended (history).       *)
(***************************************************************************)
Callers == 1..NCallers

IdleCall == [st |-> "idle", att |-> 0, ok |-> TRUE]

ConnCall(c) ==
  /\ calls[c].st = "idle"
  /\ ensureXrplConnected(c)
  /\ connectLog' = CalledLog(c)
  /\ calls' = [calls EXCEPT ![c] =
                 IF ReturnsAtOnce THEN [st |-> "resolved", att |-> 0, ok |-> TRUE]
                 ELSE [st |-> "waiting", att |-> 0, ok |-> TRUE]]
  /\ UNCHANGED <<clock, ledgerVars, finds, hookVars, runs, hist, storeVars>>

ConnSettle(op, ok) ==
  /\ ConnectSettles(op, ok)
  /\ connectLog' = SettledLog(ok)
  /\ calls' = [c \in Callers |->
                 IF c \in WaitersOf(op)
                   THEN [st |-> WaiterOutcome(ok), att |-> op, ok |-> ok]
                   ELSE calls[c]]
  /\ UNCHANGED <<clock, ledgerVars, finds, hookVars, runs, hist, storeVars>>

ConnReturn(c) ==
  /\ calls[c].st \in {"resolved", "rejected"}
  /\ calls' = [calls EXCEPT ![c] = IdleCall]
  /\ UNCHANGED <<clock, ledgerVars, connVars, connectLog, finds, hookVars, runs, hist, storeVars>>

ConnDrop ==
  /\ ConnectionDrops
  /\ UNCHANGED <<clock, ledgerVars, connectLog, calls, finds, hookVars, runs, hist, storeVars>>


(***************************************************************************)
(* The world of the model: accounts, and the state after construction.     *)
(***************************************************************************)
UserA == "rUserA"
UserB == "rUserB"
Issuer == "rIssuer"
Accounts == {UserA, UserB, Issuer}

StartRippleTime == 999    \* ripple-epoch second at which the model starts
ExpiryE == 1000           \* the Expiration carried by expiring credentials

Disconnected == [kind |-> "disconnected"]
Loading == [kind |-> "loading"]

InitClock == clock = [sec |-> RIPPLE_EPOCH_UNIX_SECONDS + StartRippleTime, ms |-> 0]

InitConnVars ==
  /\ connected = FALSE
  /\ connectInFlight = 0
  /\ connectOps = {}
  /\ waiters = {}
  /\ connectLog = InitLog

\* useState initial values, lines 67-71
InitHook ==
  /\ walletAddress = ""
  /\ state = Disconnected
  /\ issuerAddress = ""
  /\ isRefreshing = FALSE
  /\ lastUpdatedAt = None
  /\ error = ""

InitLedgerEmpty ==
  /\ accountObjects = [a \in Accounts |-> <<>>]
  /\ accountLines = [a \in Accounts |-> <<>>]

NoHist == <<>>

InitConn ==
  /\ InitClock /\ InitConnVars /\ InitHook /\ InitLedgerEmpty
  /\ calls = [c \in Callers |-> IdleCall]
  /\ finds = <<>>
  /\ runs = <<>>
  /\ hist = NoHist
  /\ StoreUnused

NextConn ==
  \/ \E c \in Callers : ConnCall(c)
  \/ \E op \in Ops, ok \in BOOLEAN : ConnSettle(op, ok)
  \/ \E c \in Callers : ConnReturn(c)
  \/ ConnDrop

SpecConn == InitConn /\ [][NextConn]_vars


(***************************************************************************)
(* Credential Resolver (credentials.ts, findCredential).                   *)
(*                                                                         *)
(* An activation of findCredential is a record                             *)
(*   pc      "idle", "subject" (awaiting the first account_objects),       *)
(*           "issuer" (awaiting the second), "done" or "failed"            *)
(*   opts    the argument                                                  *)
(*   resp    the answer on the wire: None until the server has answered    *)
(*   result  the value returned                                            *)
(*   queried (history) the accounts queried, in order                      *)
(*   last, at (history) of a call that returned: the answer it filtered    *)
(*           last, and Date.now() then                                     *)
(*   prev    (history) how the previous call of this caller ended          *)
(***************************************************************************)
\* lines 93-98: the first request names opts.ownerAddress.
\* Mutant: the issuer's objects are asked for first.
FirstQueryAccount_Issuer(opts) == opts.issuerAddress
FirstQueryAccount(opts) == opts.ownerAddress

\* lines 115-120: the fallback request names opts.issuerAddress.
SecondQueryAccount(opts) == opts.issuerAddress

IdleFind ==
  [pc |-> "idle", opts |-> [ownerAddress |-> "", issuerAddress |-> "",
                            credentialTypeHex |-> ""],
   resp |-> None, result |-> None, queried |-> <<>>, last |-> <<>>,
   at |-> None, prev |-> "never"]

\* findCredential(client, opts) up to its first await
FindStart(opts, prev) ==
  [pc |-> "subject", opts |-> opts, resp |-> None, result |-> None,
   queried |-> <<FirstQueryAccount(opts)>>, last |-> <<>>, at |-> None,
   prev |-> prev]

\* the account whose objects the pending request asks for
PendingAccount(f) == f.queried[Len(f.queried)]

\* the server answers the pending request with `objects`
FindAnswered(f, objects) == [f EXCEPT !.resp = Some(objects)]

\* line 112: if (inSubject) return inSubject.  Mutant: the fallback is always run.
ReturnsSubjectMatch_Never(inSubject) == FALSE
ReturnsSubjectMatch(inSubject) == inSubject # None

\* the answer is delivered and findCredential runs to its next await or return
FindResumed(f, dateNow) ==
  LET found == FindMatch(f.resp[1], f.opts, dateNow)
      returned == [f EXCEPT !.pc = "done", !.resp = None, !.result = found,
                            !.last = f.resp[1], !.at = Some(dateNow)]
  IN IF f.pc = "subject"
       THEN IF ReturnsSubjectMatch(found)
              THEN returned
              ELSE [f EXCEPT !.pc = "issuer", !.resp = None,
                             !.queried = Append(@, SecondQueryAccount(f.opts))]
       ELSE returned

\* client.request rejects: findCredential rejects
FindFailed(f) == [f EXCEPT !.pc = "failed", !.resp = None]

\* how a finished call ended, for the next call's prev
FindOutcome(f) ==
  IF f.pc = "failed" THEN "failed"
  ELSE IF f.result = None THEN "none"
  ELSE IF Len(f.queried) = 1 THEN "subject" ELSE "issuer"

(***************************************************************************)
(* Ledger entries of the model.                                            *)
(***************************************************************************)
Obj(fields) == [t |-> "object", v |-> fields]

CredentialEntry(index, issuer, subject, type, flags, expiration) ==
  Obj([LedgerEntryType |-> Str("Credential"), index |-> index, Issuer |-> issuer,
       Subject |-> subject, CredentialType |-> type, Flags |-> flags,
       Expiration |-> expiration])

OtherTypeHex == utf8ToHexUpper(<<"U","S","D">>)

\* the credential (Issuer, UserA, CerberusVerified): as issued, and accepted
IssuedCred(user, expiration) ==
  CredentialEntry(Str("CRED-" \o user), Str(Issuer), Str(user),
                  Str(cerberusCredentialTypeHex), Num(0), expiration)
AcceptedCred(user, expiration) ==
  CredentialEntry(Str("CRED-" \o user), Str(Issuer), Str(user),
                  Str(cerberusCredentialTypeHex), Num(LSF_ACCEPTED), expiration)

\* entries that must not match a lookup for (Issuer, UserA, CerberusVerified)
WrongSubject ==
  CredentialEntry(Str("CRED-B"), Str(Issuer), Str(UserB),
                  Str(cerberusCredentialTypeHex), Num(0), Undefined)
WrongType ==
  CredentialEntry(Str("CRED-T"), Str(Issuer), Str(UserA),
                  Str(OtherTypeHex), Num(LSF_ACCEPTED), Undefined)
WrongIssuer ==
  CredentialEntry(Str("CRED-I"), Str(UserB), Str(UserA),
                  Str(cerberusCredentialTypeHex), Num(LSF_ACCEPTED), Undefined)
\* structurally invalid entries whose other fields equal the requested values
BadIndex ==
  CredentialEntry(Num(7), Str(Issuer), Str(UserA),
                  Str(cerberusCredentialTypeHex), Num(0), Undefined)
NotCredential ==
  Obj([LedgerEntryType |-> Str("RippleState"), index |-> Str("RS-1"),
       Issuer |-> Str(Issuer), Subject |-> Str(UserA),
       CredentialType |-> Str(cerberusCredentialTypeHex), Flags |-> Num(0),
       Expiration |-> Undefined])

ObjectUniverse ==
  {IssuedCred(UserA, Undefined), AcceptedCred(UserA, Num(ExpiryE)),
   WrongSubject, WrongType, WrongIssuer, BadIndex, NotCredential}

RECURSIVE ListsUpTo(_, _)
ListsUpTo(S, n) ==
  IF n = 0 THEN {<<>>}
  ELSE LET shorter == ListsUpTo(S, n - 1)
       IN shorter \cup {Append(l, x) : l \in {m \in shorter : Len(m) = n - 1}, x \in S}

ObjectLists == ListsUpTo(ObjectUniverse, MaxListLen)

(***************************************************************************)
(* The clock.                                                              *)
(***************************************************************************)
EndOfTime == RIPPLE_EPOCH_UNIX_SECONDS + StartRippleTime + MaxTicks

\* a second passes
TickSecond ==
  /\ clock.sec < EndOfTime
  /\ clock' = [clock EXCEPT !.sec = @ + 1]

\* time passes within the second
TickMillis ==
  /\ clock.ms = 0
  /\ clock' = [clock EXCEPT !.ms = 999]

(***************************************************************************)
(* SpecResolver: findCredential called again and again for UserA, each     *)
(* answer drawn from ObjectLists, while time passes.                       *)
(***************************************************************************)
ResolverOpts ==
  [ownerAddress |-> UserA, issuerAddress |-> Issuer,
   credentialTypeHex |-> cerberusCredentialTypeHex]

ResolverFrame ==
  UNCHANGED <<ledgerVars, connVars, connectLog, calls, hookVars, runs, hist, storeVars>>

ResolverCall ==
  /\ finds[1].pc \in {"idle", "done", "failed"}
  /\ finds' = [finds EXCEPT ![1] =
                 FindStart(ResolverOpts,
                           IF finds[1].pc = "idle" THEN "never" ELSE FindOutcome(finds[1]))]
  /\ UNCHANGED clock /\ ResolverFrame

ResolverAnswer(objects) ==
  /\ finds[1].pc \in {"subject", "issuer"}
  /\ finds[1].resp = None
  /\ finds' = [finds EXCEPT ![1] = FindAnswered(@, objects)]
  /\ UNCHANGED clock /\ ResolverFrame

ResolverResume ==
  /\ finds[1].pc \in {"subject", "issuer"}
  /\ finds[1].resp # None
  /\ finds' = [finds EXCEPT ![1] = FindResumed(@, clock)]
  /\ UNCHANGED clock /\ ResolverFrame

ResolverFail ==
  /\ finds[1].pc \in {"subject", "issuer"}
  /\ finds' = [finds EXCEPT ![1] = FindFailed(@)]
  /\ UNCHANGED clock /\ ResolverFrame

ResolverTick ==
  /\ TickSecond \/ TickMillis
  /\ UNCHANGED finds /\ ResolverFrame

InitResolver ==
  /\ InitClock /\ InitConnVars /\ InitHook /\ InitLedgerEmpty
  /\ calls = <<>>
  /\ finds = <<IdleFind>>
  /\ runs = <<>>
  /\ hist = NoHist
  /\ StoreUnused

NextResolver ==
  \/ ResolverCall
  \/ \E objects \in ObjectLists : ResolverAnswer(objects)
  \/ ResolverResume
  \/ ResolverFail
  \/ ResolverTick

SpecResolver == InitResolver /\ [][NextResolver]_vars

(***************************************************************************)
(* Funnel State Machine (useUserStatus.ts).                                *)
(*                                                                         *)
(* An activation of refresh() occupies a slot of runs:                     *)
(*   pc      "idle", "connect" (await ensureXrplConnected), "fetchIssuer", *)
(*           "findCredential", "accountLines"                              *)
(*   wallet  the walletAddress its closure captured                        *)
(*   issuer  the issuer address it fetched                                 *)
(*   find    its activation of findCredential                              *)
(*   credentialId  the index of the credential it found                    *)
(*   resp    the account_lines answer on the wire (None until answered)    *)
(***************************************************************************)
Slots == 1..MaxRefresh

IdleRun ==
  [pc |-> "idle", wallet |-> "", issuer |-> "", find |-> IdleFind,
   credentialId |-> "", resp |-> None]

\* the 160-bit currency code of the gated asset as the ledger stores it
GatedCurrency == "0000000000000000000000004345524200000000"

GatedLine(authorized) ==
  [account |-> Issuer, currency |-> GatedCurrency, peer_authorized |-> authorized]

\* a trust line of the same holder to the same issuer for another currency
OtherLine == [account |-> Issuer, currency |-> "USD", peer_authorized |-> TRUE]

\* lines 102, 110, 127-131, 137, 142: the derived states
\* Mutant: a state that had a credential is patched, not replaced.
NoCredentialState_Patched(issuer) ==
  IF state.kind \in {"connected_no_credential", "loading", "disconnected"}
    THEN [kind |-> "connected_no_credential", issuerAddress |-> issuer]
    ELSE [state EXCEPT !.issuerAddress = issuer]
NoCredentialState(issuer) ==
  [kind |-> "connected_no_credential", issuerAddress |-> issuer]
WithCredential(kind, issuer, credentialId) ==
  [kind |-> kind, issuerAddress |-> issuer, credentialId |-> credentialId]

\* line 87: setState(prev => prev.kind === "disconnected" ? loading : prev)
\* Mutant: every refresh shows loading.
StateOnStart_AlwaysLoading(prev) == Loading
StateOnStart(prev) == IF prev.kind = "disconnected" THEN Loading ELSE prev

\* lines 122-124: lines.result.lines.find(...)
\* Mutant: the currency of the line is not compared.
FindLine_AnyCurrency(lines, issuer) ==
  LET hits == {i \in 1..Len(lines) : lines[i].account = issuer}
  IN IF hits = {} THEN None ELSE Some(lines[CHOOSE i \in hits : \A j \in hits : i <= j])
FindLine(lines, issuer) ==
  LET hits == {i \in 1..Len(lines) :
                 lines[i].account = issuer /\ lines[i].currency = cerbCurrencyCode}
  IN IF hits = {} THEN None ELSE Some(lines[CHOOSE i \in hits : \A j \in hits : i <= j])

\* lines 126-143: the state derived from the trust line lookup
\* Mutant: any line found counts as authorized.
LineState_IgnoresFlag(line, issuer, credentialId) ==
  IF line = None
    THEN WithCredential("credential_accepted_no_trustline", issuer, credentialId)
    ELSE WithCredential("authorized", issuer, credentialId)
LineState(line, issuer, credentialId) ==
  IF line = None
    THEN WithCredential("credential_accepted_no_trustline", issuer, credentialId)
    ELSE IF line[1].peer_authorized = TRUE
      THEN WithCredential("authorized", issuer, credentialId)
      ELSE WithCredential("trustline_pending", issuer, credentialId)

\* line 109: if (!isCredentialAccepted(credential.Flags))
\* Mutant: the accepted flag is not consulted (every credential counts as accepted).
NeedsAcceptance_Never(credential) == FALSE
NeedsAcceptance(credential) == ~isCredentialAccepted(credential.Flags)

\* account_lines of `account` restricted to `peer`, as the server answers it
LinesWithPeer(account, peer) ==
  SelectSeq(accountLines[account], LAMBDA l : l.account = peer)

FreeSlot(r) == runs[r].pc = "idle" /\ \A q \in Slots : runs[q].pc = "idle" => r <= q

\* lines 144-149 for the slots in `failed`: catch sets the error, finally
\* clears isRefreshing
RunsAfterFailure(failed) ==
  [q \in Slots |-> IF q \in failed THEN IdleRun ELSE runs[q]]

\* refresh() of the render whose walletAddress is w, lines 75-90, up to the
\* first await, in slot r
RefreshBody(w, r) ==
  IF w = ""
    THEN \* lines 76-81
         /\ state' = Disconnected
         /\ issuerAddress' = ""
         /\ error' = ""
         /\ UNCHANGED <<isRefreshing, lastUpdatedAt, runs, connVars>>
    ELSE /\ FreeSlot(r)
         /\ isRefreshing' = TRUE
         /\ error' = ""
         /\ state' = StateOnStart(state)
         /\ ensureXrplConnected(r)
         /\ runs' = [runs EXCEPT ![r] =
                       [IdleRun EXCEPT
                          !.pc = IF ReturnsAtOnce THEN "fetchIssuer" ELSE "connect",
                          !.wallet = w]]
         /\ UNCHANGED <<issuerAddress, lastUpdatedAt>>

Refresh(r) == RefreshBody(walletAddress, r) /\ UNCHANGED walletAddress

\* lines 152-161: the wallet option changes and the effect runs; its two
\* branches are those of refresh itself (lines 153-157 repeat lines 76-80)
IdentityChanges(w, r) ==
  /\ w # walletAddress
  /\ walletAddress' = w
  /\ RefreshBody(w, r)
  /\ UNCHANGED <<clock, ledgerVars, calls, finds>>

\* lines 163-171: the polling interval fires
IntervalFires(r) ==
  /\ walletAddress # ""
  /\ Refresh(r)
  /\ UNCHANGED <<clock, ledgerVars, calls, finds>>

\* lines 173-182: a cerberus-ledger-refresh event is dispatched
RefreshSignal(r) ==
  /\ walletAddress # ""
  /\ Refresh(r)
  /\ UNCHANGED <<clock, ledgerVars, calls, finds>>

\* a direct call of the returned refresh
RefreshCalled(r) ==
  /\ Refresh(r)
  /\ UNCHANGED <<clock, ledgerVars, calls, finds>>

\* line 90: the connect attempt settles and the refreshes awaiting it resume
RefreshConnectSettles(op, ok) ==
  /\ ConnectSettles(op, ok)
  /\ LET resumed == WaitersOf(op) IN
       IF WaiterOutcome(ok) = "resolved"
         THEN /\ runs' = [q \in Slots |->
                            IF q \in resumed THEN [runs[q] EXCEPT !.pc = "fetchIssuer"]
                            ELSE runs[q]]
              /\ UNCHANGED <<error, isRefreshing>>
         ELSE /\ runs' = RunsAfterFailure(resumed)
              /\ error' = IF resumed = {} THEN error ELSE "connect failed"
              /\ isRefreshing' = IF resumed = {} THEN isRefreshing ELSE FALSE
  /\ UNCHANGED <<clock, ledgerVars, calls, finds, walletAddress, state,
                 issuerAddress, lastUpdatedAt>>

\* lines 92-99: fetchIssuerAddress settles; on success findCredential is called
IssuerFetched(r, answer) ==
  /\ runs[r].pc = "fetchIssuer"
  /\ IF answer = "ok"
       THEN /\ issuerAddress' = Issuer
            /\ runs' = [runs EXCEPT ![r] =
                 [@ EXCEPT !.pc = "findCredential", !.issuer = Issuer,
                           !.find = FindStart([ownerAddress |-> runs[r].wallet,
                                               issuerAddress |-> Issuer,
                                               credentialTypeHex |-> cerberusCredentialTypeHex],
                                              "never")]]
            /\ UNCHANGED <<error, isRefreshing>>
       ELSE /\ runs' = RunsAfterFailure({r})
            /\ error' = answer
            /\ isRefreshing' = FALSE
            /\ UNCHANGED issuerAddress
  /\ UNCHANGED <<clock, ledgerVars, connVars, calls, finds, walletAddress, state,
                 lastUpdatedAt>>

\* the server answers the pending account_objects request from the validated ledger
ObjectsAnswered(r) ==
  /\ runs[r].pc = "findCredential"
  /\ runs[r].find.resp = None
  /\ runs' = [runs EXCEPT ![r] =
        [@ EXCEPT !.find = FindAnswered(@, accountObjects[PendingAccount(runs[r].find)])]]
  /\ UNCHANGED <<clock, ledgerVars, connVars, calls, finds, hookVars>>

\* lines 95-120: the account_objects answer arrives; findCredential goes on,
\* and when it returns refresh goes on to its next await or to its end
ObjectsDelivered(r) ==
  /\ runs[r].pc = "findCredential"
  /\ runs[r].find.resp # None
  /\ LET f == FindResumed(runs[r].find, clock)
         issuer == runs[r].issuer
     IN IF f.pc # "done"
          THEN /\ runs' = [runs EXCEPT ![r] = [@ EXCEPT !.find = f]]
               /\ UNCHANGED <<state, lastUpdatedAt, isRefreshing>>
          ELSE IF f.result = None
            THEN /\ state' = NoCredentialState(issuer)
                 /\ lastUpdatedAt' = Some(clock)
                 /\ isRefreshing' = FALSE
                 /\ runs' = [runs EXCEPT ![r] = IdleRun]
            ELSE IF NeedsAcceptance(f.result[1])
              THEN /\ state' = WithCredential("credential_unaccepted", issuer,
                                              f.result[1].index)
                   /\ lastUpdatedAt' = Some(clock)
                   /\ isRefreshing' = FALSE
                   /\ runs' = [runs EXCEPT ![r] = IdleRun]
              ELSE /\ runs' = [runs EXCEPT ![r] =
                         [@ EXCEPT !.pc = "accountLines", !.find = IdleFind,
                                   !.credentialId = f.result[1].index,
                                   !.resp = None]]
                   /\ UNCHANGED <<state, lastUpdatedAt, isRefreshing>>
  /\ UNCHANGED <<clock, ledgerVars, connVars, calls, finds, walletAddress,
                 issuerAddress, error>>

\* the server answers the account_lines request from the validated ledger
LinesAnswered(r) ==
  /\ runs[r].pc = "accountLines"
  /\ runs[r].resp = None
  /\ runs' = [runs EXCEPT ![r] =
        [@ EXCEPT !.resp = Some(LinesWithPeer(runs[r].wallet, runs[r].issuer))]]
  /\ UNCHANGED <<clock, ledgerVars, connVars, calls, finds, hookVars>>

\* lines 115-143: the account_lines answer arrives
LinesDelivered(r) ==
  /\ runs[r].pc = "accountLines"
  /\ runs[r].resp # None
  /\ state' = LineState(FindLine(runs[r].resp[1], runs[r].issuer),
                        runs[r].issuer, runs[r].credentialId)
  /\ lastUpdatedAt' = Some(clock)
  /\ isRefreshing' = FALSE
  /\ runs' = [runs EXCEPT ![r] = IdleRun]
  /\ UNCHANGED <<clock, ledgerVars, connVars, calls, finds, walletAddress,
                 issuerAddress, error>>

\* lines 144-149: a ledger request of the refresh rejects
RequestFails(r) ==
  /\ runs[r].pc \in {"findCredential", "accountLines"}
  /\ runs' = RunsAfterFailure({r})
  /\ error' = "request failed"
  /\ isRefreshing' = FALSE
  /\ UNCHANGED <<clock, ledgerVars, connVars, calls, finds, walletAddress, state,
                 issuerAddress, lastUpdatedAt>>

(***************************************************************************)
(* The ledger (external): the issuer issues the credential to a user, the  *)
(* user accepts it (the entry moves from the issuer's objects to the       *)
(* user's), either side deletes it; the user sets the trust line, the      *)
(* issuer authorizes it.                                                   *)
(***************************************************************************)
\* the Expiration of a credential: none, one that has passed when the model
\* starts, one that lies ahead
Expirations == {Undefined, Num(StartRippleTime), Num(ExpiryE)}

IsCredOf(o, user) ==
  o \in {IssuedCred(user, e) : e \in Expirations}
          \cup {AcceptedCred(user, e) : e \in Expirations}

HasCred(account, user) ==
  \E i \in 1..Len(accountObjects[account]) : IsCredOf(accountObjects[account][i], user)

Without(list, user) == SelectSeq(list, LAMBDA o : ~IsCredOf(o, user))

IssueCredential(user, expiration) ==
  /\ ~HasCred(Issuer, user) /\ ~HasCred(user, user)
  /\ accountObjects' = [accountObjects EXCEPT
                          ![Issuer] = Append(@, IssuedCred(user, expiration))]
  /\ UNCHANGED accountLines

AcceptCredential(user) ==
  /\ \E e \in Expirations :
       /\ \E i \in 1..Len(accountObjects[Issuer]) :
            accountObjects[Issuer][i] = IssuedCred(user, e)
       /\ accountObjects' = [accountObjects EXCEPT
                               ![Issuer] = Without(@, user),
                               ![user] = Append(@, AcceptedCred(user, e))]
  /\ UNCHANGED accountLines

DeleteCredential(user) ==
  /\ HasCred(Issuer, user) \/ HasCred(user, user)
  /\ accountObjects' = [accountObjects EXCEPT
                          ![Issuer] = Without(@, user), ![user] = Without(@, user)]
  /\ UNCHANGED accountLines

HasGatedLine(user) ==
  \E i \in 1..Len(accountLines[user]) : accountLines[user][i].currency = GatedCurrency

TrustSet(user) ==
  /\ ~HasGatedLine(user)
  /\ accountLines' = [accountLines EXCEPT ![user] = Append(@, GatedLine(FALSE))]
  /\ UNCHANGED accountObjects

SetAuthorized(user, flag) ==
  /\ \E i \in 1..Len(accountLines[user]) : accountLines[user][i] = GatedLine(~flag)
  /\ accountLines' = [accountLines EXCEPT ![user] =
       [i \in 1..Len(@) |-> IF @[i] = GatedLine(~flag) THEN GatedLine(flag) ELSE @[i]]]
  /\ UNCHANGED accountObjects

RemoveTrustline(user) ==
  /\ HasGatedLine(user)
  /\ accountLines' = [accountLines EXCEPT ![user] =
                        SelectSeq(@, LAMBDA l : l.currency # GatedCurrency)]
  /\ UNCHANGED accountObjects

LedgerStep ==
  \/ \E e \in {Undefined, Num(StartRippleTime)} : IssueCredential(UserA, e)
  \/ AcceptCredential(UserA)
  \/ DeleteCredential(UserA)
  \/ TrustSet(UserA)
  \/ \E flag \in BOOLEAN : SetAuthorized(UserA, flag)
  \/ RemoveTrustline(UserA)

\* the ledger before UserA enters the funnel: the issuer has issued the
\* credential to another user, UserA holds a credential of another type and
\* a trust line to the issuer for another currency
InitLedger ==
  /\ accountObjects = [a \in Accounts |->
                         IF a = Issuer THEN <<WrongSubject>>
                         ELSE IF a = UserA THEN <<WrongType>> ELSE <<>>]
  /\ accountLines = [a \in Accounts |-> IF a = UserA THEN <<OtherLine>> ELSE <<>>]

(***************************************************************************)
(* History of the funnel.                                                  *)
(*   before[r]  the activations all of whose ledger reads came before r's  *)
(*              first read                                                 *)
(*   stale      the activations all of whose reads came before the first   *)
(*              read of an activation whose result has been applied since  *)
(*   overwrote  a stale activation's result has been applied               *)
(*   trail, fresh  (SpecScenario) the states shown by successive refreshes *)
(*              and whether one completed since the last ledger step       *)
(***************************************************************************)
InitHist ==
  [before |-> [r \in Slots |-> {}], stale |-> {},
   overwrote |-> FALSE, trail |-> <<>>, fresh |-> FALSE]

\* the activation has read the ledger: an account_objects or account_lines
\* request of it has been answered
HasRead(run) ==
  \/ run.pc = "accountLines"
  \/ run.pc = "findCredential" /\ (run.find.pc = "issuer" \/ run.find.resp # None)

\* this step answers a ledger request of r
ReadNow(r) ==
  \/ /\ runs[r].pc = "findCredential" /\ runs'[r].pc = "findCredential"
     /\ runs[r].find.resp = None /\ runs'[r].find.resp # None
  \/ /\ runs[r].pc = "accountLines" /\ runs'[r].pc = "accountLines"
     /\ runs[r].resp = None /\ runs'[r].resp # None

Finished(r) == runs[r].pc # "idle" /\ runs'[r].pc = "idle"

\* the history after a step; applies: the slot whose result the step applies
Hist(applies) ==
  LET gone == {q \in Slots : ReadNow(q) \/ Finished(q)}
      newlyStale == IF applies = 0 THEN {} ELSE hist.before[applies]
  IN /\ UNCHANGED <<connectLog, storeVars>>
     /\ hist' = [hist EXCEPT
          !.before = [r \in Slots |->
                        IF ReadNow(r) /\ ~HasRead(runs[r])
                          THEN {q \in Slots \ {r} :
                                  /\ HasRead(runs[q])
                                  /\ runs[q].wallet = runs[r].wallet}
                        ELSE IF Finished(r) THEN {}
                        ELSE hist.before[r] \ gone],
          !.stale = (hist.stale \cup newlyStale) \ gone,
          !.overwrote = hist.overwrote \/ (applies # 0 /\ applies \in hist.stale)]

\* the slot whose result a delivery step of r applies
AppliesOf(r) == IF Finished(r) THEN r ELSE 0

(***************************************************************************)
(* Spec: one browsing context polling the funnel of UserA while the ledger *)
(* changes and the connection drops.                                       *)
(***************************************************************************)
IssuerAnswers == {"ok", "Issuer address missing from response"}

Init ==
  /\ InitClock /\ InitConnVars /\ InitHook /\ InitLedger
  /\ calls = <<>>
  /\ finds = <<>>
  /\ runs = [r \in Slots |-> IdleRun]
  /\ hist = InitHist
  /\ StoreUnused

LedgerChanges ==
  /\ LedgerStep
  /\ UNCHANGED <<clock, connVars, calls, finds, hookVars, runs>>

SocketCloses ==
  /\ ConnectionDrops
  /\ UNCHANGED <<clock, ledgerVars, calls, finds, hookVars, runs>>

Next ==
  \/ \E r \in Slots : IdentityChanges(UserA, r) /\ Hist(0)
  \/ \E r \in Slots : IntervalFires(r) /\ Hist(0)
  \/ \E r \in Slots : RefreshSignal(r) /\ Hist(0)
  \/ \E r \in Slots : RefreshCalled(r) /\ Hist(0)
  \/ \E op \in Ops, ok \in BOOLEAN : RefreshConnectSettles(op, ok) /\ Hist(0)
  \/ \E r \in Slots, answer \in IssuerAnswers : IssuerFetched(r, answer) /\ Hist(0)
  \/ \E r \in Slots : ObjectsAnswered(r) /\ Hist(0)
  \/ \E r \in Slots : ObjectsDelivered(r) /\ Hist(AppliesOf(r))
  \/ \E r \in Slots : LinesAnswered(r) /\ Hist(0)
  \/ \E r \in Slots : LinesDelivered(r) /\ Hist(AppliesOf(r))
  \/ \E r \in Slots : RequestFails(r) /\ Hist(0)
  \/ LedgerChanges /\ Hist(0)
  \/ SocketCloses /\ Hist(0)

Spec == Init /\ [][Next]_vars

(***************************************************************************)
(* SpecScenario: the funnel of UserA walked step by step.  The credential  *)
(* is issued and lies under the issuer; each external step (the user       *)
(* accepts it, the user sets the trust line, the issuer authorizes it) is  *)
(* taken while no refresh runs and after a refresh has ended without       *)
(* failure, and refreshes run one at a time.  hist.trail is the sequence   *)
(* of the state kinds the refreshes have shown, hist.fresh tells whether   *)
(* one has ended without failure since the last external step.             *)
(***************************************************************************)
Quiet == \A q \in Slots : runs[q].pc = "idle"

InitScenario ==
  /\ InitClock /\ InitConnVars /\ InitHook
  /\ \E e \in {Undefined, Num(ExpiryE)} :
       accountObjects = [a \in Accounts |->
                           IF a = Issuer THEN <<WrongSubject, IssuedCred(UserA, e)>>
                           ELSE IF a = UserA THEN <<WrongType>> ELSE <<>>]
  /\ accountLines = [a \in Accounts |-> IF a = UserA THEN <<OtherLine>> ELSE <<>>]
  /\ calls = <<>>
  /\ finds = <<>>
  /\ runs = [r \in Slots |-> IdleRun]
  /\ hist = InitHist
  /\ StoreUnused

\* the history after a step; applied: the step applies the result of a refresh
ScenarioHist(applied) ==
  /\ UNCHANGED <<connectLog, storeVars>>
  /\ hist' = [hist EXCEPT
       !.trail = IF applied /\ (@ = <<>> \/ @[Len(@)] # state'.kind)
                   THEN Append(@, state'.kind) ELSE @,
       !.fresh = @ \/ applied]

ScenarioStep ==
  /\ Quiet
  /\ hist.fresh
  /\ \/ AcceptCredential(UserA)
     \/ HasCred(UserA, UserA) /\ TrustSet(UserA)
     \/ SetAuthorized(UserA, TRUE)
  /\ hist' = [hist EXCEPT !.fresh = FALSE]
  /\ UNCHANGED <<clock, connVars, connectLog, calls, finds, hookVars, runs, storeVars>>

NextScenario ==
  \/ \E r \in Slots : Quiet /\ IdentityChanges(UserA, r) /\ ScenarioHist(FALSE)
  \/ \E r \in Slots : Quiet /\ IntervalFires(r) /\ ScenarioHist(FALSE)
  \/ \E r \in Slots : Quiet /\ RefreshSignal(r) /\ ScenarioHist(FALSE)
  \/ \E r \in Slots : Quiet /\ RefreshCalled(r) /\ ScenarioHist(FALSE)
  \/ \E op \in Ops, ok \in BOOLEAN : RefreshConnectSettles(op, ok) /\ ScenarioHist(FALSE)
  \/ \E r \in Slots, answer \in IssuerAnswers :
       IssuerFetched(r, answer) /\ ScenarioHist(FALSE)
  \/ \E r \in Slots : ObjectsAnswered(r) /\ ScenarioHist(FALSE)
  \/ \E r \in Slots : ObjectsDelivered(r) /\ ScenarioHist(Finished(r))
  \/ \E r \in Slots : LinesAnswered(r) /\ ScenarioHist(FALSE)
  \/ \E r \in Slots : LinesDelivered(r) /\ ScenarioHist(TRUE)
  \/ \E r \in Slots : RequestFails(r) /\ ScenarioHist(FALSE)
  \/ SocketCloses /\ ScenarioHist(FALSE)
  \/ ScenarioStep

SpecScenario == InitScenario /\ [][NextScenario]_vars

(***************************************************************************)
(* SpecIdentity: the funnel while the wallet option comes and goes.  The   *)
(* identity effect runs at every change of walletAddress, whatever         *)
(* refresh is still running; the interval, the signal and direct calls     *)
(* start a refresh when none is running.                                   *)
(***************************************************************************)
Identities == {"", UserA}

NoHistStep == UNCHANGED <<connectLog, hist, storeVars>>

NextIdentity ==
  \/ \E w \in Identities, r \in Slots : IdentityChanges(w, r) /\ NoHistStep
  \/ \E r \in Slots : Quiet /\ IntervalFires(r) /\ NoHistStep
  \/ \E r \in Slots : Quiet /\ RefreshSignal(r) /\ NoHistStep
  \/ \E r \in Slots : Quiet /\ RefreshCalled(r) /\ NoHistStep
  \/ \E op \in Ops, ok \in BOOLEAN : RefreshConnectSettles(op, ok) /\ NoHistStep
  \/ \E r \in Slots, answer \in IssuerAnswers : IssuerFetched(r, answer) /\ NoHistStep
  \/ \E r \in Slots : ObjectsAnswered(r) /\ NoHistStep
  \/ \E r \in Slots : ObjectsDelivered(r) /\ NoHistStep
  \/ \E r \in Slots : LinesAnswered(r) /\ NoHistStep
  \/ \E r \in Slots : LinesDelivered(r) /\ NoHistStep
  \/ \E r \in Slots : RequestFails(r) /\ NoHistStep
  \/ LedgerChanges /\ NoHistStep
  \/ SocketCloses /\ NoHistStep

SpecIdentity == Init /\ [][NextIdentity]_vars

(***************************************************************************)
(* Session Identity Store (WalletContext.tsx).                             *)
(*                                                                         *)
(* A browsing context (tab) has its own sessionStorage and its own         *)
(* WalletProvider; localStorage is shared by all contexts.  "" stands for  *)
(* an absent storage entry (getItem returns null).  tabs[c] holds          *)
(*   open       the context exists and its provider is mounted             *)
(*   pending    "none", or the operation awaiting generateAndFundWallet    *)
(*   seed       the seed of the wallet being funded for that operation     *)
(*   seen       the classicAddress the remember effect ran for last        *)
(*   loggedOut  (history) disconnectWallet was the last operation called   *)
(***************************************************************************)
MaxFunded == 3

Contexts == {"A", "B"}

\* the seed of the n-th wallet the faucet funds
SeedOf(n) == "s" \o ToString(n)

\* Wallet.fromSeed(seed)
fromSeed(seed) == [seed |-> seed, classicAddress |-> "r" \o seed]

\* lines 139-145
loadSeedFromStorage(c) ==
  IF sessionStorage[c] # "" THEN sessionStorage[c] ELSE localStorage.seed

\* lines 197-204
walletFromSeed(seed) == IF seed = "" THEN None ELSE Some(fromSeed(seed))

\* line 206: const wallet = sessionWallet ?? walletFromSeed
wallet(c) ==
  IF sessionWallet[c] # None THEN sessionWallet[c]
  ELSE walletFromSeed(loadSeedFromStorage(c))

\* wallet?.classicAddress ("" for undefined)
classicAddress(c) == IF wallet(c) = None THEN "" ELSE wallet(c)[1].classicAddress

\* deduped.slice(0, 5).  Mutant: the list is not cut.
Slice5_Unbounded(list) == list
Slice5(list) == IF Len(list) <= 5 THEN list ELSE SubSeq(list, 1, 5)

\* lines 61-68, on the stored list.  Mutant: an address already in the list
\* keeps its place.
rememberRecentAddress_KeepsPlace(recent, address) ==
  IF address = "" THEN recent
  ELSE IF \E i \in 1..Len(recent) : recent[i] = address THEN recent
  ELSE IF Len(recent) < 5 THEN <<address>> \o recent
  ELSE <<address>> \o SubSeq(recent, 1, 4)
rememberRecentAddress(recent, address) ==
  IF address = "" THEN recent
  ELSE IF recent # <<>> /\ recent[1] = address THEN recent
  ELSE Slice5(<<address>> \o SelectSeq(recent, LAMBDA a : a # address))

\* lines 115-137, on the stored slots.  Mutant: a third address replaces
\* slot 2 and slot 1 stays.
rememberDemoUserAddress_NoShift(ls, address) ==
  IF address = "" THEN ls
  ELSE IF address = ls.user1 \/ address = ls.user2 THEN ls
  ELSE IF ls.user1 = "" THEN [ls EXCEPT !.user1 = address]
  ELSE [ls EXCEPT !.user2 = address]
\* Mutant: an address already in a slot is stored again.
rememberDemoUserAddress_NoDedup(ls, address) ==
  IF address = "" THEN ls
  ELSE IF ls.user1 = "" THEN [ls EXCEPT !.user1 = address]
  ELSE IF ls.user2 = "" THEN [ls EXCEPT !.user2 = address]
  ELSE [ls EXCEPT !.user1 = ls.user2, !.user2 = address]
rememberDemoUserAddress(ls, address) ==
  IF address = "" THEN ls
  ELSE IF address = ls.user1 \/ address = ls.user2 THEN ls
  ELSE IF ls.user1 = "" THEN [ls EXCEPT !.user1 = address]
  ELSE IF ls.user2 = "" THEN [ls EXCEPT !.user2 = address]
  ELSE [ls EXCEPT !.user1 = ls.user2, !.user2 = address]

\* rememberRecentAddress(address); rememberDemoUserAddress(address)
Remembered(ls, address) ==
  rememberDemoUserAddress(
    [ls EXCEPT !.recent = rememberRecentAddress(ls.recent, address)], address)

\* lines 147-154.  Mutant: the saved default is not written.
saveSeedToLocalStorage_Skipped(ls, seed) == ls
saveSeedToLocalStorage(ls, seed) == [ls EXCEPT !.seed = seed]

\* lines 161-164 in context c.  Mutant: every context's entry is removed.
clearSeedFromSessionStorage_All(c) == [x \in Contexts |-> ""]
clearSeedFromSessionStorage(c) == [sessionStorage EXCEPT ![c] = ""]

\* line 217: if (savedSeed).  Mutant: the saved seed is never restored.
RestoresSaved_Never(savedSeed) == FALSE
RestoresSaved(savedSeed) == savedSeed # ""

ClosedTab ==
  [open |-> FALSE, pending |-> "none", seed |-> "", seen |-> "", loggedOut |-> FALSE]
FreshTab == [ClosedTab EXCEPT !.open = TRUE]

otherVars ==
  <<clock, ledgerVars, connVars, connectLog, calls, finds, hookVars, runs, hist>>

\* a new tab is opened: empty sessionStorage, provider mounted
OpenContext(c) ==
  /\ ~tabs[c].open
  /\ tabs' = [tabs EXCEPT ![c] = FreshTab]
  /\ sessionStorage' = [sessionStorage EXCEPT ![c] = ""]
  /\ sessionWallet' = [sessionWallet EXCEPT ![c] = None]
  /\ UNCHANGED <<localStorage, funded>>

\* the tab is closed: its sessionStorage ends with it
CloseContext(c) ==
  /\ tabs[c].open
  /\ tabs' = [tabs EXCEPT ![c] = ClosedTab]
  /\ sessionStorage' = [sessionStorage EXCEPT ![c] = ""]
  /\ sessionWallet' = [sessionWallet EXCEPT ![c] = None]
  /\ UNCHANGED <<localStorage, funded>>

\* the page is reloaded: the provider is mounted anew (line 187), the
\* tab's sessionStorage stays
ReloadContext(c) ==
  /\ tabs[c].open
  /\ tabs' = [tabs EXCEPT ![c] = FreshTab]
  /\ sessionWallet' = [sessionWallet EXCEPT ![c] = None]
  /\ UNCHANGED <<localStorage, sessionStorage, funded>>

\* lines 208-212: the effect on wallet?.classicAddress
WalletEffect(c) ==
  /\ tabs[c].open
  /\ classicAddress(c) # tabs[c].seen
  /\ localStorage' = Remembered(localStorage, classicAddress(c))
  /\ tabs' = [tabs EXCEPT ![c].seen = classicAddress(c)]
  /\ UNCHANGED <<sessionStorage, sessionWallet, funded>>

\* generateAndFundWallet(client) is called for operation op
StartFunding(c, op) ==
  /\ funded < MaxFunded
  /\ funded' = funded + 1
  /\ tabs' = [tabs EXCEPT ![c].pending = op, ![c].seed = SeedOf(funded + 1),
                          ![c].loggedOut = FALSE]

\* lines 214-223: connectWallet up to its return or its await
connectWallet(c) ==
  /\ tabs[c].open /\ tabs[c].pending = "none"
  /\ LET savedSeed == localStorage.seed IN
       IF RestoresSaved(savedSeed)
         THEN /\ sessionStorage' = [sessionStorage EXCEPT ![c] = savedSeed]
              /\ tabs' = [tabs EXCEPT ![c].loggedOut = FALSE]
              /\ UNCHANGED funded
         ELSE /\ StartFunding(c, "connect")
              /\ UNCHANGED sessionStorage
  /\ UNCHANGED <<localStorage, sessionWallet>>

\* lines 234-235: createNewWallet up to its await
createNewWallet(c) ==
  /\ tabs[c].open /\ tabs[c].pending = "none"
  /\ StartFunding(c, "create")
  /\ UNCHANGED <<localStorage, sessionStorage, sessionWallet>>

\* lines 224-231 and 236-243: the funded wallet arrives (ok), or funding
\* rejects and the operation ends there
FundingSettles(c, ok) ==
  /\ tabs[c].open /\ tabs[c].pending # "none"
  /\ tabs' = [tabs EXCEPT ![c].pending = "none", ![c].seed = ""]
  /\ IF ok
       THEN LET fundedWallet == fromSeed(tabs[c].seed) IN
              /\ localStorage' = saveSeedToLocalStorage(
                                   Remembered(localStorage, fundedWallet.classicAddress),
                                   fundedWallet.seed)
              /\ sessionStorage' = [sessionStorage EXCEPT ![c] = fundedWallet.seed]
              /\ sessionWallet' = [sessionWallet EXCEPT ![c] = Some(fundedWallet)]
       ELSE UNCHANGED <<localStorage, sessionStorage, sessionWallet>>
  /\ UNCHANGED funded

\* lines 246-254
disconnectWallet(c) ==
  /\ tabs[c].open
  /\ localStorage' = Remembered(localStorage, classicAddress(c))
  /\ sessionStorage' = clearSeedFromSessionStorage(c)
  /\ sessionWallet' = [sessionWallet EXCEPT ![c] = None]
  /\ tabs' = [tabs EXCEPT ![c].loggedOut = TRUE]
  /\ UNCHANGED funded

(***************************************************************************)
(* SpecStore: two browsing contexts of one origin, each calling the        *)
(* provider's operations, being opened, reloaded and closed.               *)
(***************************************************************************)
InitStore ==
  /\ localStorage = [seed |-> "", recent |-> <<>>, user1 |-> "", user2 |-> ""]
  /\ sessionStorage = [c \in Contexts |-> ""]
  /\ sessionWallet = [c \in Contexts |-> None]
  /\ tabs = [c \in Contexts |-> IF c = "A" THEN FreshTab ELSE ClosedTab]
  /\ funded = 0
  /\ InitClock /\ InitConnVars /\ InitHook /\ InitLedgerEmpty
  /\ connectLog = InitLog
  /\ calls = <<>>
  /\ finds = <<>>
  /\ runs = <<>>
  /\ hist = NoHist

NextStore ==
  \/ \E c \in Contexts : OpenContext(c) /\ UNCHANGED otherVars
  \/ \E c \in Contexts : CloseContext(c) /\ UNCHANGED otherVars
  \/ \E c \in Contexts : ReloadContext(c) /\ UNCHANGED otherVars
  \/ \E c \in Contexts : WalletEffect(c) /\ UNCHANGED otherVars
  \/ \E c \in Contexts : connectWallet(c) /\ UNCHANGED otherVars
  \/ \E c \in Contexts : createNewWallet(c) /\ UNCHANGED otherVars
  \/ \E c \in Contexts, ok \in BOOLEAN : FundingSettles(c, ok) /\ UNCHANGED otherVars
  \/ \E c \in Contexts : disconnectWallet(c) /\ UNCHANGED otherVars

SpecStore == InitStore /\ [][NextStore]_vars

(***************************************************************************)
(* Change notification (WalletContext.tsx, lines 51-164).                  *)
(*                                                                         *)
(* What one call of a storage helper does in the window of context c, as   *)
(* the sequence of its effects: a setItem on a localStorage key, a write   *)
(* of the tab's sessionStorage, or window.dispatchEvent(event), which      *)
(* calls the listeners registered on that same window before it returns.   *)
(* In SpecNotify hist holds the effects of the last operation.             *)
(***************************************************************************)
SEED_CHANGED_EVENT == "cerberus:seed-changed"
RECENT_ADDRESSES_CHANGED_EVENT == "cerberus:recent-addresses-changed"
DEMO_USERS_CHANGED_EVENT == "cerberus:demo-users-changed"

\* window.localStorage.setItem(key, ...) in context c
SetItem(c, key) == [op |-> "setItem", name |-> key, window |-> c]

\* window.sessionStorage.setItem / removeItem of the seed in context c
SessionItem(c) == [op |-> "session", name |-> "seed", window |-> c]

\* window.dispatchEvent(new Event(event)) in context c
DispatchEvent(c, event) == [op |-> "dispatchEvent", name |-> event, window |-> c]

\* lines 51-59.  Mutant: the list is written and no event is dispatched.
saveRecentAddressesToLocalStorage_Silent(c) == <<SetItem(c, "recent")>>
saveRecentAddressesToLocalStorage(c) ==
  <<SetItem(c, "recent"), DispatchEvent(c, RECENT_ADDRESSES_CHANGED_EVENT)>>

\* lines 61-68: the effects of rememberRecentAddress(address)
RecentEffects(c, recent, address) ==
  IF address = "" THEN <<>>
  ELSE IF recent # <<>> /\ recent[1] = address THEN <<>>
  ELSE saveRecentAddressesToLocalStorage(c)

\* lines 115-137: the effects of rememberDemoUserAddress(address)
DemoEffects(c, ls, address) ==
  IF address = "" THEN <<>>
  ELSE IF address = ls.user1 \/ address = ls.user2 THEN <<>>
  ELSE (IF ls.user1 = "" THEN <<SetItem(c, "user1")>>
        ELSE IF ls.user2 = "" THEN <<SetItem(c, "user2")>>
        ELSE <<SetItem(c, "user1"), SetItem(c, "user2")>>)
       \o <<DispatchEvent(c, DEMO_USERS_CHANGED_EVENT)>>

\* rememberRecentAddress(address); rememberDemoUserAddress(address)
RememberedEffects(c, ls, address) ==
  RecentEffects(c, ls.recent, address) \o DemoEffects(c, ls, address)

\* lines 147-154
SavedSeedEffects(c) ==
  <<SetItem(c, "seed"), DispatchEvent(c, SEED_CHANGED_EVENT)>>

\* lines 156-159 and 161-164
SessionSeedEffects(c) == <<SessionItem(c), DispatchEvent(c, SEED_CHANGED_EVENT)>>

NoEffects == [window |-> "", effects |-> <<>>]

\* the operation of context c that just ran had these effects
Effects(c, effects) ==
  /\ hist' = [window |-> c, effects |-> effects]
  /\ UNCHANGED <<clock, ledgerVars, connVars, connectLog, calls, finds,
                 hookVars, runs>>

InitNotify ==
  /\ localStorage = [seed |-> "", recent |-> <<>>, user1 |-> "", user2 |-> ""]
  /\ sessionStorage = [c \in Contexts |-> ""]
  /\ sessionWallet = [c \in Contexts |-> None]
  /\ tabs = [c \in Contexts |-> IF c = "A" THEN FreshTab ELSE ClosedTab]
  /\ funded = 0
  /\ InitClock /\ InitConnVars /\ InitHook /\ InitLedgerEmpty
  /\ connectLog = InitLog
  /\ calls = <<>>
  /\ finds = <<>>
  /\ runs = <<>>
  /\ hist = NoEffects

NextNotify ==
  \/ \E c \in Contexts : OpenContext(c) /\ Effects(c, <<>>)
  \/ \E c \in Contexts : CloseContext(c) /\ Effects(c, <<>>)
  \/ \E c \in Contexts : ReloadContext(c) /\ Effects(c, <<>>)
  \/ \E c \in Contexts :
       /\ WalletEffect(c)
       /\ Effects(c, RememberedEffects(c, localStorage, classicAddress(c)))
  \/ \E c \in Contexts :
       /\ connectWallet(c)
       /\ Effects(c, IF RestoresSaved(localStorage.seed)
                       THEN SessionSeedEffects(c) ELSE <<>>)
  \/ \E c \in Contexts : createNewWallet(c) /\ Effects(c, <<>>)
  \/ \E c \in Contexts, ok \in BOOLEAN :
       /\ FundingSettles(c, ok)
       /\ Effects(c, IF ok
                       THEN RememberedEffects(c, localStorage,
                                              fromSeed(tabs[c].seed).classicAddress)
                            \o SessionSeedEffects(c) \o SavedSeedEffects(c)
                       ELSE <<>>)
  \/ \E c \in Contexts :
       /\ disconnectWallet(c)
       /\ Effects(c, RememberedEffects(c, localStorage, classicAddress(c))
                     \o SessionSeedEffects(c))

SpecNotify == InitNotify /\ [][NextNotify]_vars

(***************************************************************************)
(* SpecBook: the address bookkeeping alone.  Every observation of an       *)
(* address (lines 210-211, 224-225, 236-237, 248-249) runs                 *)
(* rememberRecentAddress and rememberDemoUserAddress on the shared store,  *)
(* starting from an empty store.  hist is the sequence of the addresses    *)
(* observed so far.                                                        *)
(***************************************************************************)
MaxObserved == 7

Addresses == {"rA", "rB", "rC", "rD", "rE", "rF"}

Observe(address) ==
  /\ Len(hist) < MaxObserved
  /\ localStorage' = Remembered(localStorage, address)
  /\ hist' = Append(hist, address)
  /\ UNCHANGED <<sessionStorage, sessionWallet, tabs, funded>>
  /\ UNCHANGED <<clock, ledgerVars, connVars, connectLog, calls, finds,
                 hookVars, runs>>

InitBook ==
  /\ localStorage = [seed |-> "", recent |-> <<>>, user1 |-> "", user2 |-> ""]
  /\ sessionStorage = [c \in Contexts |-> ""]
  /\ sessionWallet = [c \in Contexts |-> None]
  /\ tabs = [c \in Contexts |-> IF c = "A" THEN FreshTab ELSE ClosedTab]
  /\ funded = 0
  /\ InitClock /\ InitConnVars /\ InitHook /\ InitLedgerEmpty
  /\ connectLog = InitLog
  /\ calls = <<>>
  /\ finds = <<>>
  /\ runs = <<>>
  /\ hist = <<>>

NextBook == \E address \in Addresses : Observe(address)

SpecBook == InitBook /\ [][NextBook]_vars

(***************************************************************************)
(* SpecUnavailable: the provider when the storage backend is inaccessible: *)
(* every getItem, setItem and removeItem of localStorage and of            *)
(* sessionStorage throws.  A helper call is modelled by what it gives its  *)
(* caller: its return value ("null", "[]", "void") or Throws when the      *)
(* exception leaves the helper.  Nothing is ever stored, so localStorage   *)
(* and sessionStorage keep their empty values.  hist holds                 *)
(*   raised   an operation was ended by a storage exception                *)
(*   created  per context, the seed of the wallet its last successful      *)
(*            createNewWallet made active, "" after disconnectWallet or    *)
(*            when the provider was mounted anew                           *)
(***************************************************************************)
Throws == "throws"

\* try { body } catch { fallback }.  Mutant: the exception is not caught.
TryCatch_Rethrows(result, fallback) == result
TryCatch(result, fallback) == IF result = Throws THEN fallback ELSE result

\* lines 38-49, 70-77, 88-95: the load helpers
loadRecentAddressesUnavailable == TryCatch(Throws, "[]")
loadStringUnavailable == TryCatch(Throws, "null")

\* lines 51-59, 79-86, 97-104, 106-113, 147-154: the save and clear helpers
saveUnavailable == TryCatch(Throws, "void")

\* the calls completed: no exception left a helper
Completes(results) == \A i \in 1..Len(results) : results[i] # Throws

\* lines 61-68: with nothing loaded, existing[0] is not the address
rememberRecentAddressUnavailable(address) ==
  IF address = "" THEN <<>>
  ELSE <<loadRecentAddressesUnavailable, saveUnavailable>>

\* lines 115-137: with nothing loaded, slot 1 is written
rememberDemoUserAddressUnavailable(address) ==
  IF address = "" THEN <<>>
  ELSE <<loadStringUnavailable, loadStringUnavailable, saveUnavailable>>

RememberedUnavailable(address) ==
  rememberRecentAddressUnavailable(address)
    \o rememberDemoUserAddressUnavailable(address)

NothingCreated == [raised |-> FALSE, created |-> [c \in Contexts |-> ""]]

UnavailableFrame ==
  UNCHANGED <<localStorage, sessionStorage, clock, ledgerVars, connVars,
              connectLog, calls, finds, hookVars, runs>>

\* the provider of context c is mounted anew or unmounted
Remounted(c) == hist' = [hist EXCEPT !.created[c] = ""]

\* lines 208-212
WalletEffectUnavailable(c) ==
  /\ tabs[c].open
  /\ classicAddress(c) # tabs[c].seen
  /\ tabs' = [tabs EXCEPT ![c].seen = classicAddress(c)]
  /\ hist' = [hist EXCEPT !.raised =
                @ \/ ~Completes(RememberedUnavailable(classicAddress(c)))]
  /\ UNCHANGED <<sessionWallet, funded>>

\* lines 214-223: savedSeed is null, so a wallet is funded
connectWalletUnavailable(c) ==
  /\ tabs[c].open /\ tabs[c].pending = "none"
  /\ LET savedSeed == loadStringUnavailable IN
       IF savedSeed = Throws
         THEN /\ hist' = [hist EXCEPT !.raised = TRUE]
              /\ UNCHANGED <<tabs, funded>>
         ELSE /\ StartFunding(c, "connect")
              /\ UNCHANGED hist
  /\ UNCHANGED sessionWallet

\* lines 234-235
createNewWalletUnavailable(c) ==
  /\ tabs[c].open /\ tabs[c].pending = "none"
  /\ StartFunding(c, "create")
  /\ UNCHANGED <<sessionWallet, hist>>

\* lines 224-231 and 236-243
FundingSettlesUnavailable(c, ok) ==
  /\ tabs[c].open /\ tabs[c].pending # "none"
  /\ tabs' = [tabs EXCEPT ![c].pending = "none", ![c].seed = ""]
  /\ IF ok
       THEN LET fundedWallet == fromSeed(tabs[c].seed)
                results == RememberedUnavailable(fundedWallet.classicAddress)
                             \o <<saveUnavailable, saveUnavailable>>
            IN IF Completes(results)
                 THEN /\ sessionWallet' = [sessionWallet EXCEPT ![c] = Some(fundedWallet)]
                      /\ hist' = [hist EXCEPT !.created[c] =
                                    IF tabs[c].pending = "create"
                                      THEN fundedWallet.seed ELSE ""]
                 ELSE /\ hist' = [hist EXCEPT !.raised = TRUE]
                      /\ UNCHANGED sessionWallet
       ELSE UNCHANGED <<sessionWallet, hist>>
  /\ UNCHANGED funded

\* lines 246-254
disconnectWalletUnavailable(c) ==
  /\ tabs[c].open
  /\ tabs' = [tabs EXCEPT ![c].loggedOut = TRUE]
  /\ LET results == RememberedUnavailable(classicAddress(c)) \o <<saveUnavailable>>
     IN IF Completes(results)
          THEN /\ sessionWallet' = [sessionWallet EXCEPT ![c] = None]
               /\ hist' = [hist EXCEPT !.created[c] = ""]
          ELSE /\ hist' = [hist EXCEPT !.raised = TRUE]
               /\ UNCHANGED sessionWallet
  /\ UNCHANGED funded

InitUnavailable ==
  /\ localStorage = [seed |-> "", recent |-> <<>>, user1 |-> "", user2 |-> ""]
  /\ sessionStorage = [c \in Contexts |-> ""]
  /\ sessionWallet = [c \in Contexts |-> None]
  /\ tabs = [c \in Contexts |-> IF c = "A" THEN FreshTab ELSE ClosedTab]
  /\ funded = 0
  /\ InitClock /\ InitConnVars /\ InitHook /\ InitLedgerEmpty
  /\ connectLog = InitLog
  /\ calls = <<>>
  /\ finds = <<>>
  /\ runs = <<>>
  /\ hist = NothingCreated

NextUnavailable ==
  \/ \E c \in Contexts : OpenContext(c) /\ Remounted(c) /\ UnavailableFrame
  \/ \E c \in Contexts : CloseContext(c) /\ Remounted(c) /\ UnavailableFrame
  \/ \E c \in Contexts : ReloadContext(c) /\ Remounted(c) /\ UnavailableFrame
  \/ \E c \in Contexts : WalletEffectUnavailable(c) /\ UnavailableFrame
  \/ \E c \in Contexts : connectWalletUnavailable(c) /\ UnavailableFrame
  \/ \E c \in Contexts : createNewWalletUnavailable(c) /\ UnavailableFrame
  \/ \E c \in Contexts, ok \in BOOLEAN :
       FundingSettlesUnavailable(c, ok) /\ UnavailableFrame
  \/ \E c \in Contexts : disconnectWalletUnavailable(c) /\ UnavailableFrame

SpecUnavailable == InitUnavailable /\ [][NextUnavailable]_vars

(***************************************************************************)
(* SpecClient: the shared browser client under every component that can    *)
(* start a connect on it: the callers of ensureXrplConnected (client.ts),  *)
(* generateAndFundWallet (wallet.ts, lines 4-6) and xrplHealthCheck        *)
(* (currency.ts, lines 41-43).  The last two call client.connect()         *)
(* themselves; hist is the set of <<component, op>> of the connects they   *)
(* have started and that have not settled.                                 *)
(***************************************************************************)
DirectCallers == {"generateAndFundWallet", "xrplHealthCheck"}

DirectOps == {d[2] : d \in hist}

\* if (!client.isConnected()) { await client.connect(); }
DirectConnect(who) ==
  /\ \A d \in hist : d[1] # who
  /\ ~connected
  /\ connectOps' = connectOps \cup {NewOp}
  /\ hist' = hist \cup {<<who, NewOp>>}
  /\ UNCHANGED <<connected, connectInFlight, waiters, connectLog>>
  /\ UNCHANGED <<clock, ledgerVars, calls, finds, hookVars, runs, storeVars>>

\* a connect started outside the manager settles: it carries none of the
\* handlers of lines 228-234, so connectInFlight is not touched
DirectSettles(op, ok) ==
  /\ op \in DirectOps
  /\ connectOps' = connectOps \ {op}
  /\ connected' = (ok \/ connected)
  /\ hist' = {d \in hist : d[2] # op}
  /\ UNCHANGED <<connectInFlight, waiters, connectLog>>
  /\ UNCHANGED <<clock, ledgerVars, calls, finds, hookVars, runs, storeVars>>

InitClient ==
  /\ InitClock /\ InitConnVars /\ InitHook /\ InitLedgerEmpty
  /\ calls = [c \in Callers |-> IdleCall]
  /\ finds = <<>>
  /\ runs = <<>>
  /\ hist = {}
  /\ StoreUnused

NextClient ==
  \/ \E c \in Callers : ConnCall(c)
  \/ \E op \in Ops \ DirectOps, ok \in BOOLEAN : ConnSettle(op, ok)
  \/ \E c \in Callers : ConnReturn(c)
  \/ ConnDrop
  \/ \E who \in DirectCallers : DirectConnect(who)
  \/ \E op \in Ops, ok \in BOOLEAN : DirectSettles(op, ok)

SpecClient == InitClient /\ [][NextClient]_vars

(***************************************************************************)
(* SpecHeal: the funnel of UserA re-derived by one refresh after another   *)
(* while the ledger moves in both directions (the credential is issued,    *)
(* accepted, deleted, expires as seconds pass; the trust line is set,      *)
(* authorized, unauthorized, removed).  hist holds                         *)
(*   prior  the kind of the state when the last refresh was started        *)
(*   clean  the ledger and the clock have not changed since it started     *)
(*   fresh  it ended without failure, clean, and nothing changed since     *)
(***************************************************************************)
InitHeal ==
  /\ InitClock /\ InitConnVars /\ InitHook /\ InitLedger
  /\ calls = <<>>
  /\ finds = <<>>
  /\ runs = [r \in Slots |-> IdleRun]
  /\ hist = [prior |-> "disconnected", clean |-> FALSE, fresh |-> FALSE]
  /\ StoreUnused

HealFrame == UNCHANGED <<connectLog, storeVars>>

\* a refresh is started
HealStarted ==
  /\ hist' = [prior |-> state.kind, clean |-> TRUE, fresh |-> FALSE]
  /\ HealFrame

\* a step of the running refresh; applied: it sets the state it derived
HealStep(applied) ==
  /\ hist' = [hist EXCEPT !.fresh = applied /\ hist.clean]
  /\ HealFrame

\* the ledger or the clock changes
HealChanged ==
  /\ hist' = [hist EXCEPT !.clean = FALSE, !.fresh = FALSE]
  /\ HealFrame

HealLedgerStep ==
  /\ LedgerStep \/ IssueCredential(UserA, Num(ExpiryE))
  /\ UNCHANGED <<clock, connVars, calls, finds, hookVars, runs>>

SecondPasses ==
  /\ TickSecond
  /\ UNCHANGED <<ledgerVars, connVars, calls, finds, hookVars, runs>>

NextHeal ==
  \/ \E r \in Slots : Quiet /\ IdentityChanges(UserA, r) /\ HealStarted
  \/ \E r \in Slots : Quiet /\ IntervalFires(r) /\ HealStarted
  \/ \E r \in Slots : Quiet /\ RefreshSignal(r) /\ HealStarted
  \/ \E op \in Ops, ok \in BOOLEAN : RefreshConnectSettles(op, ok) /\ HealStep(FALSE)
  \/ \E r \in Slots, answer \in IssuerAnswers :
       IssuerFetched(r, answer) /\ HealStep(FALSE)
  \/ \E r \in Slots : ObjectsAnswered(r) /\ HealStep(FALSE)
  \/ \E r \in Slots : ObjectsDelivered(r) /\ HealStep(Finished(r))
  \/ \E r \in Slots : LinesAnswered(r) /\ HealStep(FALSE)
  \/ \E r \in Slots : LinesDelivered(r) /\ HealStep(TRUE)
  \/ \E r \in Slots : RequestFails(r) /\ HealStep(FALSE)
  \/ HealLedgerStep /\ HealChanged
  \/ SecondPasses /\ HealChanged

SpecHeal == InitHeal /\ [][NextHeal]_vars

(***************************************************************************)
(* SpecDerive: refreshes of UserA one after another, the ledger changing   *)
(* between them, to compare evaluations with one another.  An evaluation   *)
(* is a refresh that ends without failure; its inputs are the identity,    *)
(* the result of findCredential and the lines of the account_lines answer  *)
(* (None when the refresh ended before requesting them).  hist holds       *)
(*   prior  the state when the last refresh was started                    *)
(*   cred   the result of findCredential in the running refresh            *)
(*   kept   one earlier evaluation, chosen freely: its inputs, the state   *)
(*          it set and its prior state                                     *)
(*   same   the last evaluation had the inputs of the kept one             *)
(***************************************************************************)
NoEvaluation == [inputs |-> <<>>, out |-> Disconnected, prior |-> Disconnected]

InitDerive ==
  /\ InitClock /\ InitConnVars /\ InitHook /\ InitLedger
  /\ calls = <<>>
  /\ finds = <<>>
  /\ runs = [r \in Slots |-> IdleRun]
  /\ hist = [prior |-> Disconnected, cred |-> None, kept |-> NoEvaluation,
             same |-> FALSE]
  /\ StoreUnused

DeriveStarted ==
  /\ hist' = [hist EXCEPT !.prior = state, !.cred = None, !.same = FALSE]
  /\ HealFrame

DeriveStep == UNCHANGED <<hist, connectLog, storeVars>>

\* an evaluation with these inputs ends; keep: it becomes the kept one
Evaluated(inputs, keep) ==
  /\ hist' = [hist EXCEPT
       !.cred = None,
       !.kept = IF keep THEN [inputs |-> inputs, out |-> state', prior |-> hist.prior]
                ELSE @,
       !.same = keep \/ hist.kept.inputs = inputs]
  /\ HealFrame

\* lines 95-113: findCredential returns
CredentialLookedUp(r, keep) ==
  /\ ObjectsDelivered(r)
  /\ LET f == FindResumed(runs[r].find, clock) IN
       IF Finished(r) THEN Evaluated(<<runs[r].wallet, f.result, None>>, keep)
       ELSE /\ ~keep
            /\ hist' = [hist EXCEPT !.cred = IF f.pc = "done" THEN f.result ELSE @]
            /\ HealFrame

\* lines 115-143: the account_lines answer arrives
LinesLookedUp(r, keep) ==
  /\ LinesDelivered(r)
  /\ Evaluated(<<runs[r].wallet, hist.cred, runs[r].resp>>, keep)

NextDerive ==
  \/ \E r \in Slots : Quiet /\ IdentityChanges(UserA, r) /\ DeriveStarted
  \/ \E r \in Slots : Quiet /\ IntervalFires(r) /\ DeriveStarted
  \/ \E r \in Slots : Quiet /\ RefreshSignal(r) /\ DeriveStarted
  \/ \E op \in Ops, ok \in BOOLEAN : RefreshConnectSettles(op, ok) /\ DeriveStep
  \/ \E r \in Slots, answer \in IssuerAnswers : IssuerFetched(r, answer) /\ DeriveStep
  \/ \E r \in Slots : ObjectsAnswered(r) /\ DeriveStep
  \/ \E r \in Slots, keep \in BOOLEAN :
       (keep => hist.kept = NoEvaluation) /\ CredentialLookedUp(r, keep)
  \/ \E r \in Slots : LinesAnswered(r) /\ DeriveStep
  \/ \E r \in Slots, keep \in BOOLEAN :
       (keep => hist.kept = NoEvaluation) /\ LinesLookedUp(r, keep)
  \/ Quiet /\ LedgerChanges /\ DeriveStep

SpecDerive == InitDerive /\ [][NextDerive]_vars

(***************************************************************************)
(* SpecTeardown: the hook with its interval and its listener as the        *)
(* effects of lines 163-182 set and remove them.  Each effect runs again   *)
(* when canQuery or refresh changes, that is when walletAddress changes:   *)
(* the cleanup of the previous run removes the timer (line 170) or the     *)
(* listener (line 181), and a new one is set for the new refresh when      *)
(* canQuery holds.  Unmounting the hook runs the cleanups alone.  hist     *)
(* holds                                                                   *)
(*   mounted   the hook is mounted                                         *)
(*   timer     the walletAddress of the refresh the interval set calls,    *)
(*             "" when no interval is set                                  *)
(*   listener  the same for the cerberus-ledger-refresh listener           *)
(***************************************************************************)
\* lines 163-171 and 173-182 run for walletAddress w: what is registered
\* after the cleanup of the previous run.  Mutant: no cleanup is returned.
Registered_NoCleanup(previous, w) == IF w # "" THEN w ELSE previous
Registered(previous, w) == w

InitTeardown ==
  /\ InitClock /\ InitConnVars /\ InitHook
  /\ accountObjects = [a \in Accounts |->
                         IF a = UserA THEN <<AcceptedCred(UserA, Undefined)>> ELSE <<>>]
  /\ accountLines = [a \in Accounts |-> IF a = UserA THEN <<GatedLine(TRUE)>> ELSE <<>>]
  /\ calls = <<>>
  /\ finds = <<>>
  /\ runs = [r \in Slots |-> IdleRun]
  /\ hist = [mounted |-> TRUE, timer |-> "", listener |-> ""]
  /\ StoreUnused

TeardownStep == UNCHANGED <<hist, connectLog, storeVars>>

\* the wallet option changes: all three effects run
WalletOptionChanges(w, r) ==
  /\ hist.mounted
  /\ IdentityChanges(w, r)
  /\ hist' = [hist EXCEPT !.timer = Registered(@, w), !.listener = Registered(@, w)]
  /\ HealFrame

\* line 167: the interval set by the effect fires and calls its refresh
TimerFires(r) ==
  /\ hist.timer # ""
  /\ RefreshBody(hist.timer, r)
  /\ UNCHANGED <<walletAddress, clock, ledgerVars, calls, finds>>
  /\ TeardownStep

\* line 177: the listener added by the effect is called
SignalReceived(r) ==
  /\ hist.listener # ""
  /\ RefreshBody(hist.listener, r)
  /\ UNCHANGED <<walletAddress, clock, ledgerVars, calls, finds>>
  /\ TeardownStep

\* the component using the hook is unmounted: the cleanups run
Unmounted ==
  /\ hist.mounted
  /\ hist' = [mounted |-> FALSE, timer |-> Registered(hist.timer, ""),
              listener |-> Registered(hist.listener, "")]
  /\ UNCHANGED <<clock, ledgerVars, connVars, calls, finds, hookVars, runs>>
  /\ HealFrame

NextTeardown ==
  \/ \E w \in Identities, r \in Slots : WalletOptionChanges(w, r)
  \/ \E r \in Slots : TimerFires(r)
  \/ \E r \in Slots : SignalReceived(r)
  \/ Unmounted
  \/ \E op \in Ops, ok \in BOOLEAN : RefreshConnectSettles(op, ok) /\ TeardownStep
  \/ \E r \in Slots, answer \in IssuerAnswers : IssuerFetched(r, answer) /\ TeardownStep
  \/ \E r \in Slots : ObjectsAnswered(r) /\ TeardownStep
  \/ \E r \in Slots : ObjectsDelivered(r) /\ TeardownStep
  \/ \E r \in Slots : LinesAnswered(r) /\ TeardownStep
  \/ \E r \in Slots : LinesDelivered(r) /\ TeardownStep
  \/ \E r \in Slots : RequestFails(r) /\ TeardownStep

SpecTeardown == InitTeardown /\ [][NextTeardown]_vars

(***************************************************************************)
(* SpecAuthorize: the authorize-trustline route (api/admin/issuer route,   *)
(* POST) serving requests for UserA, one at a time, while the ledger       *)
(* changes.  calls is the activation of the handler:                       *)
(*   pc        idle, findCredential, accountLines, submit, postLines, done *)
(*   currency  the currency of the request body                            *)
(*   find      the activation of findCredential (line 110)                 *)
(*   resp      the answer to the pending account_lines, None until given   *)
(*   response  the response returned                                       *)
(* hist.tx tells whether the activation has submitted its TrustSet.        *)
(***************************************************************************)
RequestCurrencies == {GatedCurrency, "USD"}

NoResponse == [status |-> 0, body |-> ""]

IdleRoute ==
  [pc |-> "idle", currency |-> "", find |-> IdleFind, resp |-> None,
   response |-> NoResponse]

\* NextResponse.json(body, { status })
Responded(route, status, body) ==
  [route EXCEPT !.pc = "done", !.find = IdleFind, !.resp = None,
                !.response = [status |-> status, body |-> body]]

\* lines 116-128: the response the credential preflight ends with, None to
\* go on.  Mutant: the accepted flag is not tested.
CredentialPreflight_IgnoresAccepted(credential) ==
  IF credential = None THEN Some(<<403, "User has no valid credential">>) ELSE None
CredentialPreflight(credential) ==
  IF credential = None THEN Some(<<403, "User has no valid credential">>)
  ELSE IF ~isCredentialAccepted(credential[1].Flags)
    THEN Some(<<403, "User credential not accepted">>)
    ELSE None

\* lines 138-140 and 208-210: lines.find(...)
RouteLine(lines, issuer, currency) ==
  LET hits == {i \in 1..Len(lines) :
                 lines[i].account = issuer /\ lines[i].currency = currency}
  IN IF hits = {} THEN None ELSE Some(lines[CHOOSE i \in hits : \A j \in hits : i <= j])

\* lines 142-173: the response the trust line preflight ends with, None to
\* go on to the transaction
LinePreflight(line) ==
  IF line = None THEN Some(<<400, "Trustline not found">>)
  ELSE IF line[1].peer_authorized = TRUE THEN Some(<<200, "already_authorized">>)
  ELSE None

AuthorizeFrame ==
  UNCHANGED <<connVars, connectLog, finds, hookVars, runs, storeVars>>

\* lines 64-114: a valid request arrives
AuthorizeRequested(currency) ==
  /\ calls.pc = "idle"
  /\ calls' = [IdleRoute EXCEPT
                 !.pc = "findCredential", !.currency = currency,
                 !.find = FindStart([ownerAddress |-> UserA,
                                     issuerAddress |-> Issuer,
                                     credentialTypeHex |-> cerberusCredentialTypeHex],
                                    "never")]
  /\ hist' = [tx |-> FALSE]
  /\ UNCHANGED <<clock, ledgerVars>>
  /\ AuthorizeFrame

\* the server answers the pending account_objects request
AuthorizeObjectsAnswered ==
  /\ calls.pc = "findCredential"
  /\ calls.find.resp = None
  /\ calls' = [calls EXCEPT
                 !.find = FindAnswered(@, accountObjects[PendingAccount(calls.find)])]
  /\ UNCHANGED <<clock, ledgerVars, hist>>
  /\ AuthorizeFrame

\* lines 110-136: the answer arrives; findCredential goes on, and when it
\* returns the credential preflight runs
AuthorizeObjectsDelivered ==
  /\ calls.pc = "findCredential"
  /\ calls.find.resp # None
  /\ LET f == FindResumed(calls.find, clock) IN
       calls' = IF f.pc # "done" THEN [calls EXCEPT !.find = f]
                ELSE IF CredentialPreflight(f.result) # None
                  THEN Responded(calls, CredentialPreflight(f.result)[1][1],
                                 CredentialPreflight(f.result)[1][2])
                  ELSE [calls EXCEPT !.pc = "accountLines", !.find = IdleFind,
                                     !.resp = None]
  /\ UNCHANGED <<clock, ledgerVars, hist>>
  /\ AuthorizeFrame

\* the server answers the pending account_lines request
AuthorizeLinesAnswered ==
  /\ calls.pc \in {"accountLines", "postLines"}
  /\ calls.resp = None
  /\ calls' = [calls EXCEPT !.resp = Some(LinesWithPeer(UserA, Issuer))]
  /\ UNCHANGED <<clock, ledgerVars, hist>>
  /\ AuthorizeFrame

\* lines 131-186: the trust line preflight, then submitAndWait(tx)
AuthorizeLinesDelivered ==
  /\ calls.pc = "accountLines"
  /\ calls.resp # None
  /\ LET verdict == LinePreflight(RouteLine(calls.resp[1], Issuer, calls.currency)) IN
       IF verdict # None
         THEN /\ calls' = Responded(calls, verdict[1][1], verdict[1][2])
              /\ UNCHANGED hist
         ELSE /\ calls' = [calls EXCEPT !.pc = "submit", !.resp = None]
              /\ hist' = [tx |-> TRUE]
  /\ UNCHANGED <<clock, ledgerVars>>
  /\ AuthorizeFrame

\* lines 186-199: the TrustSet with tfSetfAuth is validated with tesSUCCESS
\* (the issuer's authorization is on the ledger), or is not
AuthorizeSubmitSettles(ok) ==
  /\ calls.pc = "submit"
  /\ IF ok
       THEN /\ accountLines' = [accountLines EXCEPT ![UserA] =
                 [i \in 1..Len(@) |->
                    IF @[i].account = Issuer /\ @[i].currency = calls.currency
                      THEN [@[i] EXCEPT !.peer_authorized = TRUE] ELSE @[i]]]
            /\ calls' = [calls EXCEPT !.pc = "postLines", !.resp = None]
       ELSE /\ calls' = Responded(calls, 500, "Failed to authorize trustline")
            /\ UNCHANGED accountLines
  /\ UNCHANGED <<clock, accountObjects, hist>>
  /\ AuthorizeFrame

\* lines 201-225: the definitive live check
AuthorizePostDelivered ==
  /\ calls.pc = "postLines"
  /\ calls.resp # None
  /\ LET postLine == RouteLine(calls.resp[1], Issuer, calls.currency) IN
       calls' = IF postLine = None \/ postLine[1].peer_authorized # TRUE
                  THEN Responded(calls, 500,
                         "Authorization tx validated but trustline not authorized")
                  ELSE Responded(calls, 200, "authorized")
  /\ UNCHANGED <<clock, ledgerVars, hist>>
  /\ AuthorizeFrame

\* lines 226-234: a request of the handler rejects
AuthorizeFails ==
  /\ calls.pc \in {"findCredential", "accountLines", "submit", "postLines"}
  /\ calls' = Responded(calls, 500, "Authorize trustline failed")
  /\ UNCHANGED <<clock, ledgerVars, hist>>
  /\ AuthorizeFrame

\* the response has been sent; the route serves the next request
AuthorizeReturned ==
  /\ calls.pc = "done"
  /\ calls' = IdleRoute
  /\ UNCHANGED <<clock, ledgerVars, hist>>
  /\ AuthorizeFrame

AuthorizeLedgerStep ==
  /\ LedgerStep
  /\ UNCHANGED <<clock, calls, hist>>
  /\ AuthorizeFrame

InitAuthorize ==
  /\ InitClock /\ InitConnVars /\ InitHook /\ InitLedger
  /\ calls = IdleRoute
  /\ finds = <<>>
  /\ runs = <<>>
  /\ hist = [tx |-> FALSE]
  /\ StoreUnused

NextAuthorize ==
  \/ \E currency \in RequestCurrencies : AuthorizeRequested(currency)
  \/ AuthorizeObjectsAnswered
  \/ AuthorizeObjectsDelivered
  \/ AuthorizeLinesAnswered
  \/ AuthorizeLinesDelivered
  \/ \E ok \in BOOLEAN : AuthorizeSubmitSettles(ok)
  \/ AuthorizePostDelivered
  \/ AuthorizeFails
  \/ AuthorizeReturned
  \/ AuthorizeLedgerStep

SpecAuthorize == InitAuthorize /\ [][NextAuthorize]_vars

(***************************************************************************)
(* SpecAccept: acceptCerberusCredential (credentials.ts lines 136-181)     *)
(* called for UserA's wallet, one call at a time, while the ledger         *)
(* changes.  calls is the activation:                                      *)
(*   pc       idle, submit, findCredential, done                           *)
(*   find     the activation of findCredential (line 165)                  *)
(*   outcome  how the promise settled: kind pending / returned / thrown,   *)
(*            with the credential id returned or the error message         *)
(* hist is the result submitAndWait gave the activation.                   *)
(***************************************************************************)
\* result.result.validated and meta.TransactionResult as submitAndWait may
\* give them; Undefined is a result without meta
SubmitValidated == {TRUE, FALSE}
SubmitResults == {Str("tesSUCCESS"), Str("tecNO_ENTRY"), Undefined}

NoSubmit == [validated |-> FALSE, txResult |-> Undefined, settled |-> FALSE]

IdleAccept ==
  [pc |-> "idle", find |-> IdleFind, outcome |-> [kind |-> "pending", value |-> ""]]

AcceptSettled(activation, kind, value) ==
  [activation EXCEPT !.pc = "done", !.find = IdleFind,
                     !.outcome = [kind |-> kind, value |-> value]]

\* lines 151-157: txResult is the TransactionResult of meta when it is a
\* string, else null
TxResultOf(metaResult) == IF IsString(metaResult) THEN metaResult.v ELSE ""

\* line 159: the transaction went through.  Mutant: validated is not tested.
SubmitSucceeded_ResultOnly(validated, txResult) == txResult = "tesSUCCESS"
SubmitSucceeded(validated, txResult) == validated = TRUE /\ txResult = "tesSUCCESS"

\* lines 171-180: what the call settles with once the lookup has returned
AcceptVerdict(accepted) ==
  IF accepted = None
    THEN <<"thrown", "CredentialAccept validated but credential not found">>
  ELSE IF ~isCredentialAccepted(accepted[1].Flags)
    THEN <<"thrown", "CredentialAccept validated but credential not marked accepted">>
    ELSE <<"returned", accepted[1].index>>

AcceptFrame ==
  UNCHANGED <<connVars, connectLog, finds, hookVars, runs, storeVars>>

\* lines 136-149: the call builds the CredentialAccept and submits it
AcceptCalled ==
  /\ calls.pc = "idle"
  /\ calls' = [IdleAccept EXCEPT !.pc = "submit"]
  /\ hist' = NoSubmit
  /\ UNCHANGED <<clock, ledgerVars>>
  /\ AcceptFrame

\* lines 149-169: submitAndWait resolves.  A validated tesSUCCESS is an
\* acceptance recorded on the ledger; any other result leaves it as it was.
AcceptSubmitSettles(validated, metaResult) ==
  /\ calls.pc = "submit"
  /\ IF validated = TRUE /\ metaResult = Str("tesSUCCESS")
       THEN AcceptCredential(UserA)
       ELSE UNCHANGED ledgerVars
  /\ hist' = [validated |-> validated, txResult |-> metaResult, settled |-> TRUE]
  /\ calls' =
       IF ~SubmitSucceeded(validated, TxResultOf(metaResult))
         THEN AcceptSettled(calls, "thrown", "CredentialAccept failed")
         ELSE [calls EXCEPT
                 !.pc = "findCredential",
                 !.find = FindStart([ownerAddress |-> UserA,
                                     issuerAddress |-> Issuer,
                                     credentialTypeHex |-> cerberusCredentialTypeHex],
                                    "never")]
  /\ UNCHANGED clock
  /\ AcceptFrame

\* the server answers the pending account_objects request
AcceptObjectsAnswered ==
  /\ calls.pc = "findCredential"
  /\ calls.find.resp = None
  /\ calls' = [calls EXCEPT
                 !.find = FindAnswered(@, accountObjects[PendingAccount(calls.find)])]
  /\ UNCHANGED <<clock, ledgerVars, hist>>
  /\ AcceptFrame

\* lines 165-180: the answer arrives; findCredential goes on, and when it
\* returns the call settles
AcceptObjectsDelivered ==
  /\ calls.pc = "findCredential"
  /\ calls.find.resp # None
  /\ LET f == FindResumed(calls.find, clock) IN
       calls' = IF f.pc # "done" THEN [calls EXCEPT !.find = f]
                ELSE AcceptSettled(calls, AcceptVerdict(f.result)[1],
                                   AcceptVerdict(f.result)[2])
  /\ UNCHANGED <<clock, ledgerVars, hist>>
  /\ AcceptFrame

\* submitAndWait or a request of the lookup rejects: the call rejects
AcceptRejects ==
  /\ calls.pc \in {"submit", "findCredential"}
  /\ calls' = AcceptSettled(calls, "thrown", "request failed")
  /\ UNCHANGED <<clock, ledgerVars, hist>>
  /\ AcceptFrame

\* the caller has taken the outcome; the next call may start
AcceptTaken ==
  /\ calls.pc = "done"
  /\ calls' = IdleAccept
  /\ UNCHANGED <<clock, ledgerVars, hist>>
  /\ AcceptFrame

AcceptLedgerStep ==
  /\ LedgerStep
  /\ UNCHANGED <<clock, calls, hist>>
  /\ AcceptFrame

InitAccept ==
  /\ InitClock /\ InitConnVars /\ InitHook /\ InitLedger
  /\ calls = IdleAccept
  /\ finds = <<>>
  /\ runs = <<>>
  /\ hist = NoSubmit
  /\ StoreUnused

NextAccept ==
  \/ AcceptCalled
  \/ \E validated \in SubmitValidated, metaResult \in SubmitResults :
       AcceptSubmitSettles(validated, metaResult)
  \/ AcceptObjectsAnswered
  \/ AcceptObjectsDelivered
  \/ AcceptRejects
  \/ AcceptTaken
  \/ AcceptLedgerStep

SpecAccept == InitAccept /\ [][NextAccept]_vars

(***************************************************************************)
(* SpecIssue: the issue-credential route (api/admin/issue-credential,      *)
(* POST) serving requests for the subject UserA, one at a time, while the  *)
(* ledger changes.  calls is the activation of the handler:                *)
(*   pc        idle, objects, submit, postObjects, done                    *)
(*   resp      the answer to the pending account_objects, None until given *)
(*   metaId    the credential id read from the transaction's meta          *)
(*   response  the response returned: status, body.status or body.error,   *)
(*             body.credentialId                                           *)
(* hist.tx tells whether the activation has submitted its CredentialCreate,*)
(* hist.ledger is the ledger the idempotency check's request was answered  *)
(* from.                                                                   *)
(***************************************************************************)
IssueOpts ==
  [ownerAddress |-> UserA, issuerAddress |-> Issuer,
   credentialTypeHex |-> cerberusCredentialTypeHex]

NoIssueResponse == [status |-> 0, body |-> "", credentialId |-> ""]

IdleIssue ==
  [pc |-> "idle", resp |-> None, metaId |-> "", response |-> NoIssueResponse]

IssueResponded(route, status, body, credentialId) ==
  [route EXCEPT !.pc = "done", !.resp = None,
                !.response = [status |-> status, body |-> body,
                              credentialId |-> credentialId]]

\* lines 109-114 and 158-163: the account whose objects the route asks for
IssueQueryAccount(subjectAddress) == Issuer

\* lines 116-125 and 165-174: the matching non-expired credential of the answer
ExistingCredential(objects, dateNow) == FindMatch(objects, IssueOpts, dateNow)

IssueFrame ==
  UNCHANGED <<connVars, connectLog, finds, hookVars, runs, storeVars>>

\* lines 60-114: a valid request for UserA arrives
IssueRequested ==
  /\ calls.pc = "idle"
  /\ calls' = [IdleIssue EXCEPT !.pc = "objects"]
  /\ hist' = [tx |-> FALSE, ledger |-> accountObjects]
  /\ UNCHANGED <<clock, ledgerVars>>
  /\ IssueFrame

\* the server answers the pending account_objects request
IssueObjectsAnswered ==
  /\ calls.pc \in {"objects", "postObjects"}
  /\ calls.resp = None
  /\ calls' = [calls EXCEPT !.resp = Some(accountObjects[IssueQueryAccount(UserA)])]
  /\ hist' = IF calls.pc = "objects" THEN [hist EXCEPT !.ledger = accountObjects]
             ELSE hist
  /\ UNCHANGED <<clock, ledgerVars>>
  /\ IssueFrame

\* lines 109-140: the idempotency check, then submitAndWait(tx)
IssueObjectsDelivered ==
  /\ calls.pc = "objects"
  /\ calls.resp # None
  /\ LET existing == ExistingCredential(calls.resp[1], clock) IN
       IF existing # None
         THEN /\ calls' = IssueResponded(calls, 200, "exists", existing[1].index)
              /\ UNCHANGED hist
         ELSE /\ calls' = [calls EXCEPT !.pc = "submit", !.resp = None]
              /\ hist' = [hist EXCEPT !.tx = TRUE]
  /\ UNCHANGED <<clock, ledgerVars>>
  /\ IssueFrame

\* lines 140-163: the CredentialCreate is validated with tesSUCCESS (the
\* credential is on the ledger), or is not
IssueSubmitSettles(ok, metaId) ==
  /\ calls.pc = "submit"
  /\ IF ok
       THEN /\ IssueCredential(UserA, Undefined)
            /\ calls' = [calls EXCEPT !.pc = "postObjects", !.resp = None,
                                      !.metaId = metaId]
       ELSE /\ calls' = IssueResponded(calls, 500, "CredentialCreate failed", "")
            /\ UNCHANGED ledgerVars
  /\ UNCHANGED <<clock, hist>>
  /\ IssueFrame

\* lines 158-192: the definitive live check
IssuePostDelivered ==
  /\ calls.pc = "postObjects"
  /\ calls.resp # None
  /\ LET created == ExistingCredential(calls.resp[1], clock)
         credentialId == IF created # None THEN created[1].index ELSE calls.metaId
     IN calls' = IF credentialId = ""
                   THEN IssueResponded(calls, 500,
                          "CredentialCreate validated but credential not found", "")
                   ELSE IssueResponded(calls, 200, "created", credentialId)
  /\ UNCHANGED <<clock, ledgerVars, hist>>
  /\ IssueFrame

\* lines 193-202: a request of the handler rejects
IssueFails ==
  /\ calls.pc \in {"objects", "submit", "postObjects"}
  /\ calls' = IssueResponded(calls, 500, "Issue credential failed", "")
  /\ UNCHANGED <<clock, ledgerVars, hist>>
  /\ IssueFrame

\* the response has been sent; the route serves the next request
IssueReturned ==
  /\ calls.pc = "done"
  /\ calls' = IdleIssue
  /\ UNCHANGED <<clock, ledgerVars, hist>>
  /\ IssueFrame

IssueLedgerStep ==
  /\ LedgerStep
  /\ UNCHANGED <<clock, calls, hist>>
  /\ IssueFrame

InitIssue ==
  /\ InitClock /\ InitConnVars /\ InitHook /\ InitLedger
  /\ calls = IdleIssue
  /\ finds = <<>>
  /\ runs = <<>>
  /\ hist = [tx |-> FALSE, ledger |-> accountObjects]
  /\ StoreUnused

NextIssue ==
  \/ IssueRequested
  \/ IssueObjectsAnswered
  \/ IssueObjectsDelivered
  \/ \E ok \in BOOLEAN, metaId \in {"", "CRED-" \o UserA} : IssueSubmitSettles(ok, metaId)
  \/ IssuePostDelivered
  \/ IssueFails
  \/ IssueReturned
  \/ IssueLedgerStep

SpecIssue == InitIssue /\ [][NextIssue]_vars

(***************************************************************************)
(* SpecSignal: CredentialAcceptAction.accept (part_003 lines 346-361) on a *)
(* page where the funnel hook is mounted.  The issuer has issued UserA's   *)
(* credential.  calls is the activation of accept:                         *)
(*   pc      idle, connect, fetchIssuer, accept, done                      *)
(*   status  the status shown by the component                             *)
(* hist tells, for the last activation, whether it raised the              *)
(* cerberus-ledger-refresh event.                                          *)
(***************************************************************************)
\* the accept action as a caller of ensureXrplConnected
AcceptCaller == 0

IdleAction == [pc |-> "idle", status |-> "idle"]

\* lines 353-354: the event is dispatched after the awaited acceptance
\* returned.  Mutant: it is dispatched however the acceptance settled.
RaisesSignal_Always(kind) == TRUE
RaisesSignal(kind) == kind = "returned"

\* lines 355-359: the status the activation ends with
StatusAfter(kind) == IF kind = "returned" THEN "accepted" ELSE "error"

\* window.dispatchEvent(new Event("cerberus-ledger-refresh")): the listener
\* of the hook, registered while it has a wallet address, calls refresh
SignalDispatched ==
  IF walletAddress # ""
    THEN \E r \in Slots : Refresh(r)
    ELSE UNCHANGED <<hookVars, runs, connVars>>

SignalFrame == UNCHANGED <<connectLog, finds, storeVars>>

\* lines 346-349: accept() is called with a wallet; up to the first await
AcceptClicked ==
  /\ calls.pc \in {"idle", "done"}
  /\ walletAddress # ""
  /\ ensureXrplConnected(AcceptCaller)
  /\ calls' = [pc |-> IF ReturnsAtOnce THEN "fetchIssuer" ELSE "connect",
               status |-> "pending"]
  /\ hist' = [raised |-> FALSE]
  /\ UNCHANGED <<clock, ledgerVars, hookVars, runs>>
  /\ SignalFrame

\* the connect attempt settles: the refreshes awaiting it resume (line 90 of
\* the hook), and so does accept (line 350)
SignalConnectSettles(op, ok) ==
  /\ ConnectSettles(op, ok)
  /\ LET resumed == WaitersOf(op) \cap Slots IN
       IF WaiterOutcome(ok) = "resolved"
         THEN /\ runs' = [q \in Slots |->
                            IF q \in resumed THEN [runs[q] EXCEPT !.pc = "fetchIssuer"]
                            ELSE runs[q]]
              /\ UNCHANGED <<error, isRefreshing>>
         ELSE /\ runs' = RunsAfterFailure(resumed)
              /\ error' = IF resumed = {} THEN error ELSE "connect failed"
              /\ isRefreshing' = IF resumed = {} THEN isRefreshing ELSE FALSE
  /\ calls' = IF AcceptCaller \notin WaitersOf(op) THEN calls
              ELSE IF WaiterOutcome(ok) = "resolved"
                THEN [calls EXCEPT !.pc = "fetchIssuer"]
                ELSE [pc |-> "done", status |-> StatusAfter("thrown")]
  /\ UNCHANGED <<clock, ledgerVars, walletAddress, state, issuerAddress,
                 lastUpdatedAt, hist>>
  /\ SignalFrame

\* line 351: fetchIssuerAddress settles
AcceptIssuerFetched(answer) ==
  /\ calls.pc = "fetchIssuer"
  /\ calls' = IF answer = "ok" THEN [calls EXCEPT !.pc = "accept"]
              ELSE [pc |-> "done", status |-> StatusAfter("thrown")]
  /\ UNCHANGED <<clock, ledgerVars, connVars, hookVars, runs, hist>>
  /\ SignalFrame

\* lines 352-360: acceptCerberusCredential settles.  It returns only for an
\* acceptance recorded on the ledger.
AcceptActionSettles(kind) ==
  /\ calls.pc = "accept"
  /\ IF kind = "returned" THEN AcceptCredential(UserA) ELSE UNCHANGED ledgerVars
  /\ calls' = [pc |-> "done", status |-> StatusAfter(kind)]
  /\ IF RaisesSignal(kind)
       THEN /\ hist' = [raised |-> TRUE]
            /\ SignalDispatched
       ELSE UNCHANGED <<hist, hookVars, runs, connVars>>
  /\ UNCHANGED clock
  /\ SignalFrame

SignalStep == UNCHANGED <<hist, connectLog, storeVars>>

InitSignal ==
  /\ InitClock /\ InitConnVars /\ InitHook
  /\ accountObjects = [a \in Accounts |->
                         IF a = Issuer THEN <<IssuedCred(UserA, Undefined)>> ELSE <<>>]
  /\ accountLines = [a \in Accounts |-> <<>>]
  /\ calls = IdleAction
  /\ finds = <<>>
  /\ runs = [r \in Slots |-> IdleRun]
  /\ hist = [raised |-> FALSE]
  /\ StoreUnused

NextSignal ==
  \/ \E w \in Identities, r \in Slots : IdentityChanges(w, r) /\ SignalStep
  \/ AcceptClicked
  \/ \E op \in Ops, ok \in BOOLEAN : SignalConnectSettles(op, ok)
  \/ \E answer \in IssuerAnswers : AcceptIssuerFetched(answer)
  \/ \E kind \in {"returned", "thrown"} : AcceptActionSettles(kind)
  \/ \E r \in Slots, answer \in IssuerAnswers : IssuerFetched(r, answer) /\ SignalStep
  \/ \E r \in Slots : ObjectsAnswered(r) /\ SignalStep
  \/ \E r \in Slots : ObjectsDelivered(r) /\ SignalStep
  \/ \E r \in Slots : LinesAnswered(r) /\ SignalStep
  \/ \E r \in Slots : LinesDelivered(r) /\ SignalStep
  \/ \E r \in Slots : RequestFails(r) /\ SignalStep

SpecSignal == InitSignal /\ [][NextSignal]_vars

(***************************************************************************)
(* SpecFunding: the provider's operations as in SpecStore, with the        *)
(* outcome of each tab's last connectWallet / createNewWallet call.        *)
(* hist[c].funding is how generateAndFundWallet settled for that call      *)
(* (none when it was not called), hist[c].outcome how the call's promise   *)
(* settled.                                                                *)
(***************************************************************************)
NoCall == [funding |-> "none", outcome |-> "pending"]

\* lines 224 and 235: `await generateAndFundWallet(client)` is in no try
\* block, so its rejection is the call's.  Mutant: the rejection is swallowed.
CallOutcome_Swallowed(ok) == "resolved"
CallOutcome(ok) == IF ok THEN "resolved" ELSE "rejected"

FundingFrame ==
  UNCHANGED <<clock, ledgerVars, connVars, connectLog, calls, finds, hookVars, runs>>

connectWalletCalled(c) ==
  /\ connectWallet(c)
  /\ hist' = [hist EXCEPT ![c] =
                IF RestoresSaved(localStorage.seed)
                  THEN [funding |-> "none", outcome |-> "resolved"]
                  ELSE [funding |-> "pending", outcome |-> "pending"]]
  /\ FundingFrame

createNewWalletCalled(c) ==
  /\ createNewWallet(c)
  /\ hist' = [hist EXCEPT ![c] = [funding |-> "pending", outcome |-> "pending"]]
  /\ FundingFrame

FundingSettled(c, ok) ==
  /\ FundingSettles(c, ok)
  /\ hist' = [hist EXCEPT ![c] = [funding |-> IF ok THEN "funded" ELSE "failed",
                                  outcome |-> CallOutcome(ok)]]
  /\ FundingFrame

InitFunding ==
  /\ localStorage = [seed |-> "", recent |-> <<>>, user1 |-> "", user2 |-> ""]
  /\ sessionStorage = [c \in Contexts |-> ""]
  /\ sessionWallet = [c \in Contexts |-> None]
  /\ tabs = [c \in Contexts |-> IF c = "A" THEN FreshTab ELSE ClosedTab]
  /\ funded = 0
  /\ InitClock /\ InitConnVars /\ InitHook /\ InitLedgerEmpty
  /\ calls = <<>>
  /\ finds = <<>>
  /\ runs = <<>>
  /\ hist = [c \in Contexts |-> NoCall]

NextFunding ==
  \/ \E c \in Contexts : OpenContext(c) /\ UNCHANGED hist /\ FundingFrame
  \/ \E c \in Contexts : CloseContext(c) /\ UNCHANGED hist /\ FundingFrame
  \/ \E c \in Contexts : ReloadContext(c) /\ UNCHANGED hist /\ FundingFrame
  \/ \E c \in Contexts : WalletEffect(c) /\ UNCHANGED hist /\ FundingFrame
  \/ \E c \in Contexts : connectWalletCalled(c)
  \/ \E c \in Contexts : createNewWalletCalled(c)
  \/ \E c \in Contexts, ok \in BOOLEAN : FundingSettled(c, ok)
  \/ \E c \in Contexts : disconnectWallet(c) /\ UNCHANGED hist /\ FundingFrame

SpecFunding == InitFunding /\ [][NextFunding]_vars

(***************************************************************************)
(* SpecSwitch: the funnel hook while the wallet option changes between     *)
(* UserA, who is authorized, and UserB, who has no credential, directly or *)
(* by way of no wallet.  hist.owner is the walletAddress of the refresh    *)
(* whose result the state shown was set from.                              *)
(***************************************************************************)
SwitchIdentities == {"", UserA, UserB}

\* the wallet whose refresh set the state, after a step of slot r
OwnerAfter(r) ==
  IF runs[r].pc # "idle" /\ runs'[r].pc = "idle"
    THEN [owner |-> runs[r].wallet]
    ELSE hist

SwitchFrame == UNCHANGED <<connectLog, storeVars>>

InitSwitch ==
  /\ InitClock /\ InitConnVars /\ InitHook
  /\ accountObjects = [a \in Accounts |->
                         IF a = UserA THEN <<AcceptedCred(UserA, Undefined)>> ELSE <<>>]
  /\ accountLines = [a \in Accounts |-> IF a = UserA THEN <<GatedLine(TRUE)>> ELSE <<>>]
  /\ calls = <<>>
  /\ finds = <<>>
  /\ runs = [r \in Slots |-> IdleRun]
  /\ hist = [owner |-> ""]
  /\ StoreUnused

NextSwitch ==
  \/ \E w \in SwitchIdentities, r \in Slots :
       IdentityChanges(w, r) /\ UNCHANGED hist /\ SwitchFrame
  \/ \E op \in Ops, ok \in BOOLEAN :
       RefreshConnectSettles(op, ok) /\ UNCHANGED hist /\ SwitchFrame
  \/ \E r \in Slots, answer \in IssuerAnswers :
       IssuerFetched(r, answer) /\ UNCHANGED hist /\ SwitchFrame
  \/ \E r \in Slots : ObjectsAnswered(r) /\ UNCHANGED hist /\ SwitchFrame
  \/ \E r \in Slots : ObjectsDelivered(r) /\ hist' = OwnerAfter(r) /\ SwitchFrame
  \/ \E r \in Slots : LinesAnswered(r) /\ UNCHANGED hist /\ SwitchFrame
  \/ \E r \in Slots : LinesDelivered(r) /\ hist' = OwnerAfter(r) /\ SwitchFrame
  \/ \E r \in Slots : RequestFails(r) /\ UNCHANGED hist /\ SwitchFrame

SpecSwitch == InitSwitch /\ [][NextSwitch]_vars

(***************************************************************************)
(* SpecSlots: addresses observed one after another in context A, from an   *)
(* empty store, without end.  hist holds the address observed last and the *)
(* effects of that observation.                                            *)
(***************************************************************************)
NothingObserved == [address |-> "", effects |-> <<>>]

\* rememberRecentAddress(address); rememberDemoUserAddress(address), with
\* the address possibly empty (lines 62 and 117)
ObserveInSlots(address) ==
  /\ localStorage' = Remembered(localStorage, address)
  /\ hist' = [address |-> address,
              effects |-> RememberedEffects("A", localStorage, address)]
  /\ UNCHANGED <<sessionStorage, sessionWallet, tabs, funded>>
  /\ UNCHANGED <<clock, ledgerVars, connVars, connectLog, calls, finds,
                 hookVars, runs>>

InitSlots ==
  /\ localStorage = [seed |-> "", recent |-> <<>>, user1 |-> "", user2 |-> ""]
  /\ sessionStorage = [c \in Contexts |-> ""]
  /\ sessionWallet = [c \in Contexts |-> None]
  /\ tabs = [c \in Contexts |-> IF c = "A" THEN FreshTab ELSE ClosedTab]
  /\ funded = 0
  /\ InitClock /\ InitConnVars /\ InitHook /\ InitLedgerEmpty
  /\ connectLog = InitLog
  /\ calls = <<>>
  /\ finds = <<>>
  /\ runs = <<>>
  /\ hist = NothingObserved

NextSlots == \E address \in Addresses \cup {""} : ObserveInSlots(address)

SpecSlots == InitSlots /\ [][NextSlots]_vars

(***************************************************************************)
(*                              CLAIMS                                     *)
(***************************************************************************)

\* C3: whatever number of ensureXrplConnected calls were made while the
\* connection was not established and the attempt has not settled, exactly
\* one underlying connect operation has been issued (and it is the pending one).
C3_OneConnectPerWindow ==
  connectLog.callers # {} =>
    /\ connectLog.connects = 1
    /\ Cardinality(connectOps) = 1

\* Witness: all NCallers callers joined one pending attempt.
C3_Witness ==
  /\ connectLog.callers = Callers
  /\ \A c \in Callers : calls[c].st = "waiting"
  /\ connectLog.connects = 1

\* C4: when a connect attempt settles, every caller that awaited it (the
\* initiator included) resumes with that attempt's outcome: resolved when the
\* connection got established, rejected when it failed; and no caller stays
\* waiting on an attempt that is no longer pending.
C4_SameOutcomeForAllWaiters ==
  /\ [](\A c \in Callers :
          calls[c].st = "waiting" => \E op \in connectOps : <<c, op>> \in waiters)
  /\ [][\A op \in connectOps \ connectOps' : \A c \in WaitersOf(op) :
          calls'[c].st = (IF connected' THEN "resolved" ELSE "rejected")]_vars

\* Witness: three callers hold the failure of one and the same attempt.
C4_Witness ==
  /\ \A c \in Callers : calls[c].st = "rejected" /\ calls[c].att = 1
  /\ connectLog.prev = "failed"

\* C5: after a failed attempt the marker is clear, and the first call made
\* after it while still disconnected issues a new underlying connect.
C5_RetryAfterFailure ==
  /\ []((connectLog.prev = "failed" /\ connectLog.callers = {}) => connectInFlight = 0)
  /\ [][(/\ connectLog.prev = "failed"
         /\ connectLog.callers = {}
         /\ ~connected
         /\ \E c \in Callers : calls[c].st = "idle" /\ calls'[c].st # "idle")
        => (/\ Cardinality(connectOps' \ connectOps) = 1
            /\ connectInFlight' \in connectOps' \ connectOps)]_vars

\* Witness: a new attempt is pending after the previous one failed.
C5_Witness ==
  /\ connectLog.prev = "failed"
  /\ connectLog.connects = 1
  /\ connectInFlight \in connectOps
  /\ ~connected


(***************************************************************************)
(* What the claims call a matching object, stated on the ledger entry      *)
(* itself: a Credential entry with issuer, subject and type as requested,  *)
(* not expired at reference time (ripple-epoch seconds).                   *)
(***************************************************************************)
RefTime(dateNow) == dateNow.sec - RIPPLE_EPOCH_UNIX_SECONDS

IsCredentialEntry(o) ==
  /\ o.t = "object"
  /\ o.v.LedgerEntryType = Str("Credential")
  /\ o.v.index.t = "string" /\ o.v.Subject.t = "string"
  /\ o.v.Issuer.t = "string" /\ o.v.CredentialType.t = "string"

IsSuchObject(o, opts, dateNow) ==
  /\ IsCredentialEntry(o)
  /\ o.v.Issuer.v = opts.issuerAddress
  /\ o.v.Subject.v = opts.ownerAddress
  /\ o.v.CredentialType.v = opts.credentialTypeHex
  /\ (o.v.Expiration.t = "number" => RefTime(dateNow) < o.v.Expiration.v)

SuchIn(list, opts, dateNow) ==
  {i \in 1..Len(list) : IsSuchObject(list[i], opts, dateNow)}

\* the returned credential c is the ledger entry o
IsEntry(c, o) ==
  /\ c.index = o.v.index.v /\ c.Issuer = o.v.Issuer.v /\ c.Subject = o.v.Subject.v
  /\ c.CredentialType = o.v.CredentialType.v /\ c.Flags = o.v.Flags

\* C6: every call, whatever the previous call returned, asks for the objects
\* of ownerAddress first; it asks for the objects of issuerAddress second and
\* only when the first answer held no matching object; when the first answer
\* holds one, the call returns that subject-owned object without a second query.
C6_SubjectFirstThenIssuer ==
  /\ [](finds[1].pc # "idle" =>
          /\ Len(finds[1].queried) \in {1, 2}
          /\ finds[1].queried[1] = finds[1].opts.ownerAddress
          /\ (finds[1].pc = "subject" => Len(finds[1].queried) = 1)
          /\ (Len(finds[1].queried) = 2 =>
                finds[1].queried[2] = finds[1].opts.issuerAddress))
  /\ [][(finds[1].pc = "subject" /\ finds'[1].pc \in {"issuer", "done"}) =>
          LET hits == SuchIn(finds[1].resp[1], finds[1].opts, clock)
          IN IF hits = {}
               THEN finds'[1].pc = "issuer" /\ Len(finds'[1].queried) = 2
               ELSE /\ finds'[1].pc = "done"
                    /\ finds'[1].queried = finds[1].queried
                    /\ finds'[1].result # None
                    /\ \E i \in hits : IsEntry(finds'[1].result[1], finds[1].resp[1][i])]_vars

\* Witness: after a call that found the credential under the issuer, a call
\* returns the subject-owned object having queried the subject only.
C6_Witness ==
  /\ finds[1].prev = "issuer"
  /\ finds[1].pc = "done"
  /\ finds[1].queried = <<UserA>>
  /\ finds[1].result # None
  /\ finds[1].last = <<AcceptedCred(UserA, Num(ExpiryE))>>

C7_WitnessNone ==
  /\ finds[1].pc = "done"
  /\ finds[1].queried = <<UserA, Issuer>>
  /\ finds[1].last = <<WrongSubject, BadIndex>>
  /\ finds[1].result = None

\* C8: a lookup whose answer is one credential without expiration finds it at
\* every reference time; one whose answer is one credential expiring at E
\* finds it exactly when the reference time is strictly less than E; for
\* E = 1000 the credential is valid at 999 and expired at 1000 and at 1001.
C8_StrictExpiry ==
  /\ (finds[1].pc = "done" /\ finds[1].last = <<IssuedCred(UserA, Undefined)>>)
       => finds[1].result # None
  /\ (finds[1].pc = "done" /\ finds[1].last = <<AcceptedCred(UserA, Num(ExpiryE))>>)
       => (finds[1].result # None <=> RefTime(finds[1].at[1]) < ExpiryE)
  /\ \A ms \in {0, 999} :
       LET c == [Expiration |-> Num(1000)]
           At(t) == [sec |-> RIPPLE_EPOCH_UNIX_SECONDS + t, ms |-> ms]
       IN /\ isNonExpiredCredential(c, At(999))
          /\ ~isNonExpiredCredential(c, At(1000))
          /\ ~isNonExpiredCredential(c, At(1001))
          /\ isNonExpiredCredential([Expiration |-> Undefined], At(1001))

\* Witness: at reference time E exactly, the credential expiring at E is not found.
C8_Witness ==
  /\ finds[1].pc = "done"
  /\ finds[1].last = <<AcceptedCred(UserA, Num(ExpiryE))>>
  /\ RefTime(finds[1].at[1]) = ExpiryE
  /\ finds[1].result = None

\* C1: for the active identity, at most one activation of refresh is between
\* its start and its end at any time: a refresh invoked by the interval, by
\* the refresh signal or by a direct call while another is running does not
\* run beside it.
C1_AtMostOneRefreshInFlight ==
  Cardinality({r \in Slots : runs[r].pc # "idle" /\ runs[r].wallet = walletAddress}) <= 1

\* C2: the result of a refresh all of whose ledger reads came before the first
\* read of another refresh is not applied after the result of that other one.
C2_StaleResultNeverApplied == ~hist.overwrote

\* the first entry of the answer that the lookup of activation r is for
C9_Found(r) ==
  LET list == runs[r].find.resp[1]
      hits == SuchIn(list, [issuerAddress |-> runs[r].issuer,
                            ownerAddress |-> walletAddress,
                            credentialTypeHex |-> "43657262657275735665726966696564"],
                     clock)
  IN IF hits = {} THEN <<>> ELSE <<list[CHOOSE i \in hits : \A j \in hits : i <= j]>>

C9_Accepted(o) == (o.v.Flags.v \div 65536) % 2 = 1

\* the first line of the answer that is to the issuer for the gated asset code
C9_Line(r) ==
  LET lines == runs[r].resp[1]
      hits == {i \in 1..Len(lines) :
                 /\ lines[i].account = runs[r].issuer
                 /\ lines[i].currency = "0000000000000000000000004345524200000000"}
  IN IF hits = {} THEN <<>> ELSE <<lines[CHOOSE i \in hits : \A j \in hits : i <= j]>>

\* C9: a refresh of the active identity that ends without failure sets the
\* state by the table: no credential found, connected_no_credential; found
\* and not accepted, credential_unaccepted with the credential id; accepted
\* and no line to the issuer for the gated asset code,
\* credential_accepted_no_trustline; such a line with peer_authorized true,
\* authorized; such a line otherwise, trustline_pending.  account_lines is
\* requested only when the credential is found and accepted.
C9_FunnelTable ==
  [][\A r \in Slots :
       /\ (ObjectsDelivered(r) /\ runs'[r].pc = "idle") =>
            LET found == C9_Found(r)
            IN IF found = <<>>
                 THEN /\ runs[r].find.pc = "issuer"
                      /\ state' = [kind |-> "connected_no_credential",
                                   issuerAddress |-> runs[r].issuer]
                 ELSE /\ ~C9_Accepted(found[1])
                      /\ state' = [kind |-> "credential_unaccepted",
                                   issuerAddress |-> runs[r].issuer,
                                   credentialId |-> found[1].v.index.v]
       /\ (runs[r].pc # "accountLines" /\ runs'[r].pc = "accountLines") =>
            /\ runs[r].pc = "findCredential"
            /\ C9_Found(r) # <<>>
            /\ C9_Accepted(C9_Found(r)[1])
            /\ runs'[r].credentialId = C9_Found(r)[1].v.index.v
       /\ LinesDelivered(r) =>
            LET line == C9_Line(r)
                kind == IF line = <<>> THEN "credential_accepted_no_trustline"
                        ELSE IF line[1].peer_authorized = TRUE THEN "authorized"
                        ELSE "trustline_pending"
            IN state' = [kind |-> kind, issuerAddress |-> runs[r].issuer,
                         credentialId |-> runs[r].credentialId]]_vars

\* Witness: a refresh has ended showing trustline_pending while the holder's
\* answer held both the unauthorized gated line and an authorized line to the
\* issuer for another currency.
C9_Witness ==
  /\ state = [kind |-> "trustline_pending", issuerAddress |-> Issuer,
              credentialId |-> "CRED-" \o UserA]
  /\ lastUpdatedAt # None
  /\ \A r \in Slots : runs[r].pc = "idle"
  /\ accountLines[UserA] = <<OtherLine, GatedLine(FALSE)>>

\* the states of the scenario, in order
C10_Order ==
  <<"credential_unaccepted", "credential_accepted_no_trustline",
    "trustline_pending", "authorized">>

\* the number of the state the ledger calls for: 1 while the credential lies
\* under the issuer unaccepted, 2 once it is accepted and the holder has no
\* line for the gated asset code, 3 while that line is not authorized, 4 after
C10_Stage ==
  LET lines == accountLines[UserA]
      gated == {i \in 1..Len(lines) :
                  /\ lines[i].account = Issuer
                  /\ lines[i].currency = "0000000000000000000000004345524200000000"}
  IN IF \E i \in 1..Len(accountObjects[Issuer]) :
          /\ accountObjects[Issuer][i].v.Subject = Str(UserA)
          /\ accountObjects[Issuer][i].v.Flags = Num(0)
       THEN 1
     ELSE IF gated = {} THEN 2
     ELSE IF \E i \in gated : lines[i].peer_authorized = TRUE THEN 4
     ELSE 3

\* C10: with a refresh after each external step, the states the refreshes
\* show are, in order and without a gap, credential_unaccepted (credential
\* under the issuer, not accepted), credential_accepted_no_trustline (after
\* acceptance), trustline_pending (after the trust line is set) and authorized
\* (after the authorization); after each refresh the state shown is the one
\* the ledger calls for.
C10_ScenarioOrder ==
  /\ Len(hist.trail) <= 4
  /\ \A i \in 1..Len(hist.trail) : hist.trail[i] = C10_Order[i]
  /\ hist.fresh =>
       /\ Len(hist.trail) = C10_Stage
       /\ state.kind = C10_Order[C10_Stage]

\* Witness: the refreshes have shown the four states and the last one has
\* shown authorized after the issuer authorized the line.
C10_Witness ==
  /\ hist.trail = C10_Order
  /\ hist.fresh
  /\ state.kind = "authorized"
  /\ accountLines[UserA] = <<OtherLine, GatedLine(TRUE)>>

\* the step ends activation r of refresh by a failure: r was running, is
\* not any more, and the step is not the delivery of an answer
C11_Fails(r) ==
  /\ runs[r].pc # "idle" /\ runs'[r].pc = "idle"
  /\ ~ObjectsDelivered(r) /\ ~LinesDelivered(r)

\* C11: when a step of a refresh fails while the identity stays active, the
\* state after the refresh is the state derived last, the failure is the
\* attached error, and the state is neither loading nor disconnected.
C11_FailureKeepsDerivedState ==
  [][\A r \in Slots :
       (C11_Fails(r) /\ walletAddress # "" /\ walletAddress' = walletAddress) =>
         /\ state' = state
         /\ error' # ""
         /\ state'.kind \notin {"loading", "disconnected"}]_vars

\* C12: the state becomes loading only in a step that starts a refresh while
\* the state is disconnected; a refresh that starts in any other state leaves
\* the state as it is.
C12_LoadingOnlyFromDisconnected ==
  /\ [][(state'.kind = "loading" /\ state.kind # "loading") =>
          /\ state.kind = "disconnected"
          /\ \E r \in Slots : runs[r].pc = "idle" /\ runs'[r].pc # "idle"]_vars
  /\ [][\A r \in Slots :
          (runs[r].pc = "idle" /\ runs'[r].pc # "idle" /\ state.kind # "disconnected")
            => state' = state]_vars

\* Witness: after a refresh had shown a state and the identity had been
\* cleared, the identity is active again and the state is loading.
C12_Witness ==
  /\ state.kind = "loading"
  /\ lastUpdatedAt # None
  /\ walletAddress = UserA
  /\ \E r \in Slots : runs[r].pc # "idle"

\* C13: while no identity is active the state is disconnected, and no step
\* taken while the identity stays absent changes the state, the issuer
\* address or the error.
C13_AbsentIdentityStaysDisconnected ==
  /\ [](walletAddress = "" => state.kind = "disconnected")
  /\ [][(walletAddress = "" /\ walletAddress' = "") =>
          UNCHANGED <<state, issuerAddress, error>>]_vars

\* C14: a context whose tab scope holds no identity does not have the saved
\* identity of shared scope as its active identity (the choice 'use saved'
\* puts the identity into tab scope).
C14_NoSilentRestore ==
  \A c \in Contexts :
    (tabs[c].open /\ sessionStorage[c] = "" /\ localStorage.seed # "") =>
      (wallet(c) = None \/ wallet(c)[1].seed # localStorage.seed)

\* C15: disconnectWallet writes no shared-scope key: the saved seed, the
\* recent-address list and the demo slots are after it what they were before.
C15_DisconnectLeavesSharedScope ==
  [][\A c \in Contexts : disconnectWallet(c) => localStorage' = localStorage]_vars

\* C16: a disconnect in context a leaves the active identity of every other
\* open context b as it was, whether b's identity comes from its own tab
\* scope or from the saved seed of shared scope.
C16_DisconnectIsolated ==
  [][\A a, b \in Contexts :
       (a # b /\ disconnectWallet(a) /\ tabs[b].open) => wallet(b)' = wallet(b)]_vars

\* Witness: A has disconnected while B, with nothing in its tab scope, has the
\* saved identity as its active identity, the one A had too.
C16_Witness ==
  /\ tabs["A"].open /\ tabs["A"].loggedOut
  /\ tabs["B"].open /\ ~tabs["B"].loggedOut
  /\ sessionStorage["B"] = ""
  /\ wallet("B") # None
  /\ wallet("B")[1].seed = localStorage.seed
  /\ funded = 1

\* C17: the completion of createNewWallet (or of a connectWallet that funds
\* a new wallet) in context a leaves the active identity of every other
\* context b that has one as it was.
C17_CreateNewIsolated ==
  [][\A a, b \in Contexts :
       (a # b /\ FundingSettles(a, TRUE) /\ tabs[b].open /\ wallet(b) # None)
         => wallet(b)' = wallet(b)]_vars

\* C18: a context in which disconnectWallet was the last operation called has
\* no active identity, whatever shared scope holds.
C18_DisconnectedHasNoIdentity ==
  \A c \in Contexts : (tabs[c].open /\ tabs[c].loggedOut) => wallet(c) = None

\* C19: when createNewWallet completes, the seed of the wallet just funded,
\* found in no storage before, is the caller's session seed and the saved
\* seed of shared scope, and that wallet is the caller's active identity.
C19_CreateNewStoresIdentity ==
  [][\A c \in Contexts :
       (tabs[c].pending = "create" /\ FundingSettles(c, TRUE)) =>
         LET seed == tabs[c].seed IN
           /\ seed # "" /\ seed # localStorage.seed
           /\ \A x \in Contexts : sessionStorage[x] # seed
           /\ sessionStorage'[c] = seed
           /\ localStorage'.seed = seed
           /\ wallet(c)' = <<[seed |-> seed, classicAddress |-> "r" \o seed]>>]_vars

\* Witness: B created the second wallet: it is in B's tab scope, saved in
\* shared scope and B's active identity, while A keeps the first.
C19_Witness ==
  /\ funded = 2
  /\ sessionStorage["B"] = "s2"
  /\ localStorage.seed = "s2"
  /\ wallet("B") = <<[seed |-> "s2", classicAddress |-> "rs2"]>>
  /\ sessionStorage["A"] = "s1"
  /\ tabs["B"].pending = "none"

\* C20: connectWallet with no saved seed in shared scope funds a new wallet
\* and completes with the effects of createNewWallet; connectWallet with a
\* saved seed copies it into the caller's tab scope, funds nothing and leaves
\* shared scope as it was.
C20_ConnectCreatesOrRestores ==
  /\ [][\A c \in Contexts :
          connectWallet(c) =>
            IF localStorage.seed = ""
              THEN /\ funded' = funded + 1
                   /\ tabs'[c].pending = "connect"
                   /\ UNCHANGED <<localStorage, sessionStorage>>
              ELSE /\ sessionStorage'[c] = localStorage.seed
                   /\ funded' = funded
                   /\ tabs'[c].pending = "none"
                   /\ localStorage' = localStorage]_vars
  /\ [][\A c \in Contexts :
          (tabs[c].pending = "connect" /\ FundingSettles(c, TRUE)) =>
            LET seed == tabs[c].seed IN
              /\ sessionStorage'[c] = seed
              /\ localStorage'.seed = seed
              /\ wallet(c)' = <<[seed |-> seed, classicAddress |-> "r" \o seed]>>]_vars

\* Witness: B holds in its tab scope the seed A created and saved, and only
\* one wallet was ever funded.
C20_Witness ==
  /\ funded = 1
  /\ sessionWallet["A"] # None
  /\ localStorage.seed = "s1"
  /\ sessionStorage["B"] = "s1"
  /\ sessionWallet["B"] = None
  /\ tabs["B"].pending = "none"

\* the event the specification couples with each shared-scope key
C21_EventOf(key) ==
  CASE key = "seed" -> "cerberus:seed-changed"
    [] key = "recent" -> "cerberus:recent-addresses-changed"
    [] key \in {"user1", "user2"} -> "cerberus:demo-users-changed"

\* the effects of an operation that write to shared scope, by position
C21_Writes(effects) == {i \in 1..Len(effects) : effects[i].op = "setItem"}

\* C21: every write a context makes to shared scope (the saved seed, the
\* recent-address list, a demo slot) is followed, within the same
\* operation, by the dispatch of that entry's change event on the window of
\* the writing context; and shared scope changes only by such a write.
C21_SharedWriteNotifiesWriter ==
  [][/\ \A key \in {"seed", "recent", "user1", "user2"} :
          localStorage'[key] # localStorage[key]
            => \E i \in C21_Writes(hist'.effects) : hist'.effects[i].name = key
     /\ \A i \in C21_Writes(hist'.effects) :
          /\ hist'.effects[i].window = hist'.window
          /\ \E j \in (i + 1)..Len(hist'.effects) :
               /\ hist'.effects[j].op = "dispatchEvent"
               /\ hist'.effects[j].name = C21_EventOf(hist'.effects[i].name)
               /\ hist'.effects[j].window = hist'.effects[i].window]_vars

\* context B, not the first writer, rewrote the recent-address list, both
\* demo slots and the saved seed in one operation
C21_Witness ==
  /\ hist.window = "B"
  /\ {hist.effects[i].name : i \in C21_Writes(hist.effects)}
       = {"seed", "recent", "user1", "user2"}

\* the addresses observed so far, and the position of the last observation
\* of one of them
C22_Seen == {hist[i] : i \in 1..Len(hist)}
C22_LastSeen(a) == CHOOSE i \in 1..Len(hist) :
                     hist[i] = a /\ \A j \in (i + 1)..Len(hist) : hist[j] # a

\* how many other addresses were observed after the last observation of a
C22_Newer(a) ==
  Cardinality({b \in C22_Seen : C22_LastSeen(b) > C22_LastSeen(a)})

\* C22: after any sequence of observations from an empty store the recent
\* list has at most 5 entries, no address twice, the address observed last
\* in front, and is ordered by recency of last observation; it holds
\* exactly the (up to) five most recently observed addresses, so that an
\* address observed again moves to the front and the sixth distinct address
\* drops the least recently observed one.
C22_RecentListShape ==
  LET recent == localStorage.recent IN
    /\ Len(recent) <= 5
    /\ \A i, j \in 1..Len(recent) : i # j => recent[i] # recent[j]
    /\ hist # <<>> => recent # <<>> /\ recent[1] = hist[Len(hist)]
    /\ \A i, j \in 1..Len(recent) :
         i < j => C22_LastSeen(recent[i]) > C22_LastSeen(recent[j])
    /\ {recent[i] : i \in 1..Len(recent)} = {a \in C22_Seen : C22_Newer(a) < 5}

\* six distinct addresses were observed, and the last observation was of an
\* address observed before that was not in front
C22_Witness ==
  /\ Len(hist) = 7
  /\ Cardinality(C22_Seen) = 6
  /\ Len(localStorage.recent) = 5
  /\ hist[7] # hist[6]
  /\ \E i \in 1..5 : hist[i] = hist[7]

\* the observations of the recent-address example: A, B, C, D, E, then A
C23_Pushed == <<"rA", "rB", "rC", "rD", "rE", "rA">>

\* C23 as amended: pushing A, B, C, D, E onto an empty recent-address list
\* and then A again yields [A,E,D,C,B]: length 5, A at the front, the
\* others most recent first, no duplicate.
C23_PushAgainMovesToFront ==
  hist = C23_Pushed => localStorage.recent = <<"rA", "rE", "rD", "rC", "rB">>

\* C23 as stated: the same pushes yield the list [A,B,C,D,E].
C23_AsStated ==
  hist = C23_Pushed => localStorage.recent = <<"rA", "rB", "rC", "rD", "rE">>

C23_Witness ==
  /\ hist = C23_Pushed
  /\ Len(localStorage.recent) = 5
  /\ localStorage.recent[1] = "rA"

\* C24: from empty demo slots the first address observed fills slot 1, the
\* second distinct address fills slot 2, and every later address that is
\* in neither slot moves slot 2's address into slot 1 and takes slot 2;
\* after observing A, B, C the slots are slot1 = B, slot2 = C.
C24_SlotRotation ==
  [][/\ \A a \in {"rA", "rB", "rC", "rD", "rE", "rF"} :
          hist' = Append(hist, a) =>
            LET user1 == localStorage.user1
                user2 == localStorage.user2 IN
              /\ user1 = ""
                   => localStorage'.user1 = a /\ localStorage'.user2 = ""
              /\ user1 # "" /\ user2 = "" /\ a # user1
                   => localStorage'.user1 = user1 /\ localStorage'.user2 = a
              /\ user1 # "" /\ user2 # "" /\ a # user1 /\ a # user2
                   => localStorage'.user1 = user2 /\ localStorage'.user2 = a
     /\ hist' = <<"rA", "rB", "rC">>
          => localStorage'.user1 = "rB" /\ localStorage'.user2 = "rC"]_vars

C24_Witness ==
  /\ hist = <<"rA", "rB", "rC">>
  /\ localStorage.user2 = "rC"

\* the distinct addresses observed, and the two observed most recently
C25_Observed == {hist[i] : i \in 1..Len(hist)}
C25_LastOf(a) == CHOOSE i \in 1..Len(hist) :
                   hist[i] = a /\ \A j \in (i + 1)..Len(hist) : hist[j] # a
C25_TwoMostRecent ==
  {a \in C25_Observed :
     Cardinality({b \in C25_Observed : C25_LastOf(b) > C25_LastOf(a)}) < 2}

\* C25: after any sequence of observations with at least two distinct
\* addresses, the two demo slots hold the two most recent distinct
\* addresses observed, also when an address held in a slot is observed
\* again.
C25_SlotsAreSlidingWindow ==
  Cardinality(C25_Observed) >= 2
    => {localStorage.user1, localStorage.user2} = C25_TwoMostRecent

\* C26: with a storage backend that fails on every read and write in both
\* scopes, connectWallet, createNewWallet, disconnectWallet and the
\* address bookkeeping never end with a storage exception, and the wallet
\* of a successful createNewWallet is the calling context's active wallet,
\* held in memory only, until that context calls disconnectWallet.
C26_DegradesToMemoryOnly ==
  /\ ~hist.raised
  /\ \A c \in {"A", "B"} :
       hist.created[c] # ""
         => /\ sessionWallet[c] = <<[seed |-> hist.created[c],
                                     classicAddress |-> "r" \o hist.created[c]]>>
            /\ classicAddress(c) = "r" \o hist.created[c]
            /\ localStorage.seed = "" /\ sessionStorage[c] = ""

\* a created wallet is active in B, B's bookkeeping effect ran for it, and
\* A has disconnected from a wallet of its own
C26_Witness ==
  /\ hist.created["B"] # ""
  /\ tabs["B"].seen = "r" \o hist.created["B"]
  /\ tabs["A"].loggedOut
  /\ funded >= 2

\* C27: every underlying connect in progress on the shared client was
\* issued by ensureXrplConnected, hence is the one attempt the in-flight
\* marker holds: no component started a connect of its own, and no two
\* connects are in progress together.
C27_ConnectsOnlyByManager ==
  /\ \A op \in connectOps : op = connectInFlight
  /\ hist = {}
  /\ Cardinality(connectOps) <= 1

\* the credential the ledger holds for UserA at this moment: the first
\* matching entry among UserA's objects, else among the issuer's
C28_Credential ==
  LET opts == [issuerAddress |-> "rIssuer", ownerAddress |-> "rUserA",
               credentialTypeHex |-> "43657262657275735665726966696564"]
      own == SuchIn(accountObjects["rUserA"], opts, clock)
      iss == SuchIn(accountObjects["rIssuer"], opts, clock)
      First(S) == CHOOSE i \in S : \A j \in S : i <= j
  IN IF own # {} THEN <<accountObjects["rUserA"][First(own)]>>
     ELSE IF iss # {} THEN <<accountObjects["rIssuer"][First(iss)]>>
     ELSE <<>>

\* the state the facts of the ledger call for at this moment
C28_Facts ==
  LET lines == accountLines["rUserA"]
      gated == {i \in 1..Len(lines) :
                  /\ lines[i].account = "rIssuer"
                  /\ lines[i].currency = "0000000000000000000000004345524200000000"}
      with(kind) == [kind |-> kind, issuerAddress |-> "rIssuer",
                     credentialId |-> C28_Credential[1].v.index.v]
  IN IF C28_Credential = <<>>
       THEN [kind |-> "connected_no_credential", issuerAddress |-> "rIssuer"]
     ELSE IF (C28_Credential[1].v.Flags.v \div 65536) % 2 = 0
       THEN with("credential_unaccepted")
     ELSE IF gated = {} THEN with("credential_accepted_no_trustline")
     ELSE IF \E i \in gated : lines[i].peer_authorized = TRUE THEN with("authorized")
     ELSE with("trustline_pending")

\* how far a state is along the funnel
C28_Rank(kind) ==
  CASE kind = "connected_no_credential" -> 1
    [] kind = "credential_unaccepted" -> 2
    [] kind = "credential_accepted_no_trustline" -> 3
    [] kind = "trustline_pending" -> 4
    [] kind = "authorized" -> 5
    [] OTHER -> 0

\* C28: a refresh that ends without failure leaves the state the ledger
\* facts it read call for, whatever the state was before: when nothing
\* changed while it ran, that is the state matching the ledger as it is,
\* also after a change that moves the funnel backward (credential deleted
\* or expired, trust line removed, authorization cleared).
C28_RefreshRederivesFromFacts ==
  hist.fresh => state = C28_Facts

\* Witness: a refresh started in authorized has ended in an earlier state
C28_Witness ==
  /\ hist.fresh
  /\ hist.prior = "authorized"
  /\ C28_Rank(state.kind) < 5
  /\ state = C28_Facts

\* C29: two evaluations with the same identity, the same credential lookup
\* result and the same trust line lookup result set the same state, kind
\* and payload, whatever state each started from and whatever came before:
\* whenever the last evaluation had the inputs of the kept earlier one, the
\* state is the state the kept one set.
C29_DerivationIsDeterministic ==
  hist.same => state = hist.kept.out

\* Witness: a later evaluation had the inputs of the kept one after it was
\* started in a state of another kind, further along the funnel
C29_Witness ==
  /\ hist.same
  /\ C28_Rank(hist.prior.kind) > C28_Rank(hist.kept.prior.kind)
  /\ C28_Rank(hist.prior.kind) > C28_Rank(state.kind)
  /\ hist.kept.inputs[1] = "rUserA"

\* C30: once the active identity is cleared or the hook is unmounted, the
\* interval and the cerberus-ledger-refresh listener are removed, and for
\* as long as no identity is active again no refresh is started: no idle
\* activation leaves idle.
C30_NoRefreshAfterTeardown ==
  [][/\ (walletAddress' = "" \/ ~hist'.mounted)
          => hist'.timer = "" /\ hist'.listener = ""
     /\ ((walletAddress = "" \/ ~hist.mounted) /\ walletAddress' = walletAddress)
          => \A r \in DOMAIN runs : runs[r].pc = "idle" => runs'[r].pc = "idle"]_vars

\* Witness: the identity was cleared, or the hook unmounted, while a refresh
\* started by the interval or the signal beside the first one was running
C30_Witness ==
  /\ walletAddress = "" \/ ~hist.mounted
  /\ hist.timer = "" /\ hist.listener = ""
  /\ \A r \in DOMAIN runs : runs[r].pc # "idle" /\ runs[r].wallet = "rUserA"

\* the first entry of the account_objects answer being delivered to the
\* route that is a non-expired credential of the issuer for UserA
C31_Found ==
  LET list == calls.find.resp[1]
      hits == SuchIn(list, [issuerAddress |-> "rIssuer", ownerAddress |-> "rUserA",
                            credentialTypeHex |-> "43657262657275735665726966696564"],
                     clock)
  IN IF hits = {} THEN <<>> ELSE <<list[CHOOSE i \in hits : \A j \in hits : i <= j]>>

\* the lines of the account_lines answer being delivered that are to the
\* issuer for the requested currency
C31_Lines ==
  LET lines == calls.resp[1]
  IN {lines[i] : i \in {j \in 1..Len(lines) :
                          /\ lines[j].account = "rIssuer"
                          /\ lines[j].currency = calls.currency}}

\* C31: the route submits the issuer's TrustSet only after it found a
\* non-expired credential marked accepted and then a trust line to the
\* issuer for the requested currency that is not authorized yet; it answers
\* 403 when no credential is found or the one found is not accepted, 400
\* when there is no such trust line, already_authorized when the line is
\* authorized, each time without submitting a transaction.
C31_AuthorizeOnlyAfterPreflight ==
  [][/\ (calls.pc = "findCredential" /\ calls'.pc = "accountLines")
          => /\ C31_Found # <<>>
             /\ (C31_Found[1].v.Flags.v \div 65536) % 2 = 1
     /\ (calls.pc = "findCredential" /\ calls'.pc = "done" /\ ~AuthorizeFails)
          => /\ C31_Found = <<>> \/ (C31_Found[1].v.Flags.v \div 65536) % 2 = 0
             /\ calls'.response.status = 403
             /\ ~hist'.tx
     /\ (calls.pc # "accountLines" /\ calls'.pc = "accountLines")
          => calls.pc = "findCredential"
     /\ (calls.pc # "submit" /\ calls'.pc = "submit")
          => /\ calls.pc = "accountLines"
             /\ C31_Lines # {}
             /\ \A l \in C31_Lines : l.peer_authorized # TRUE
     /\ (calls.pc = "accountLines" /\ calls'.pc = "done" /\ ~AuthorizeFails)
          => /\ ~hist'.tx
             /\ IF C31_Lines = {}
                  THEN calls'.response.status = 400
                  ELSE /\ \E l \in C31_Lines : l.peer_authorized = TRUE
                       /\ calls'.response = [status |-> 200, body |-> "already_authorized"]
     /\ hist'.tx # hist.tx
          => IF hist'.tx THEN calls'.pc = "submit" ELSE calls'.pc = "findCredential"]_vars

\* Witness: the route has submitted the TrustSet for the gated currency and
\* answered authorized
C31_Witness ==
  /\ hist.tx
  /\ calls.pc = "done"
  /\ calls.currency = "0000000000000000000000004345524200000000"
  /\ calls.response = [status |-> 200, body |-> "authorized"]

\* the first entry of the account_objects answer being delivered to the
\* acceptance that is a non-expired credential of the issuer for UserA
C32_Found ==
  LET list == calls.find.resp[1]
      hits == SuchIn(list, [issuerAddress |-> "rIssuer", ownerAddress |-> "rUserA",
                            credentialTypeHex |-> "43657262657275735665726966696564"],
                     clock)
  IN IF hits = {} THEN <<>> ELSE <<list[CHOOSE i \in hits : \A j \in hits : i <= j]>>

\* C32: acceptCerberusCredential returns (reports success) only when the
\* submitted CredentialAccept came back validated with tesSUCCESS and the
\* follow-up lookup found the credential marked accepted; in every other
\* case it settles with an error.
C32_AcceptSucceedsOnlyWhenConfirmed ==
  [][(calls.pc # "done" /\ calls'.pc = "done")
       => /\ calls'.outcome.kind \in {"returned", "thrown"}
          /\ calls'.outcome.kind = "returned"
               <=> /\ hist.settled /\ hist.validated = TRUE
                   /\ hist.txResult = [t |-> "string", v |-> "tesSUCCESS"]
                   /\ calls.pc = "findCredential"
                   /\ calls.find.resp # <<>>
                   /\ C32_Found # <<>>
                   /\ (C32_Found[1].v.Flags.v \div 65536) % 2 = 1
                   /\ ~AcceptRejects]_vars

\* Witness: an acceptance has returned the id of the accepted credential
C32_Witness ==
  /\ calls.pc = "done"
  /\ calls.outcome = [kind |-> "returned", value |-> "CRED-rUserA"]
  /\ hist.validated = TRUE

\* the matching non-expired credentials of (issuer, UserA, type) in the
\* objects of `account`, on the ledger the idempotency check was answered from
C33_Existing(account) ==
  {hist.ledger[account][i] :
     i \in SuchIn(hist.ledger[account],
                  [issuerAddress |-> "rIssuer", ownerAddress |-> "rUserA",
                   credentialTypeHex |-> "43657262657275735665726966696564"],
                  clock)}

\* C33: issuing is idempotent: when the ledger the route read held a matching
\* non-expired credential, among the issuer's objects or among the
\* subject's, the route answers 'exists' with that credential's id and
\* submits no CredentialCreate.
C33_IssueIdempotent ==
  [][(calls.pc = "objects" /\ calls'.pc # "objects" /\ ~IssueFails
        /\ C33_Existing("rIssuer") \cup C33_Existing("rUserA") # {})
       => /\ ~hist'.tx
          /\ calls'.response.status = 200 /\ calls'.response.body = "exists"
          /\ \E o \in C33_Existing("rIssuer") \cup C33_Existing("rUserA") :
               calls'.response.credentialId = o.v.index.v]_vars

\* the part of C33 the route does keep: a matching non-expired credential
\* among the issuer's objects is answered with 'exists' and its id, and no
\* CredentialCreate is submitted
C33_IssuerOwnedIdempotent ==
  [][(calls.pc = "objects" /\ calls'.pc # "objects" /\ ~IssueFails
        /\ C33_Existing("rIssuer") # {})
       => /\ ~hist'.tx
          /\ calls'.response.status = 200 /\ calls'.response.body = "exists"
          /\ \E o \in C33_Existing("rIssuer") :
               calls'.response.credentialId = o.v.index.v]_vars

\* C34: accept raises the refresh signal only in the step in which the
\* acceptance turned out confirmed (the component shows accepted and the
\* ledger holds UserA's credential marked accepted), never in an activation
\* that ends with an error; and when the hook has an active identity, the
\* raised signal starts a refresh for that identity.
C34_SignalOnlyAfterAcceptance ==
  [][/\ (~hist.raised /\ hist'.raised)
          => /\ calls.pc = "accept" /\ calls'.pc = "done"
             /\ calls'.status = "accepted"
             /\ \E i \in 1..Len(accountObjects'["rUserA"]) :
                  LET o == accountObjects'["rUserA"][i].v IN
                    /\ o.Subject.v = "rUserA" /\ o.Issuer.v = "rIssuer"
                    /\ (o.Flags.v \div 65536) % 2 = 1
             /\ walletAddress # ""
                  => /\ isRefreshing'
                     /\ \E r \in DOMAIN runs :
                          /\ runs[r].pc = "idle" /\ runs'[r].pc # "idle"
                          /\ runs'[r].wallet = walletAddress
     /\ (calls.pc # "done" /\ calls'.pc = "done")
          => (hist'.raised <=> calls'.status = "accepted")
     /\ (calls'.pc # "done" \/ calls'.status # "accepted") => ~hist'.raised]_vars

\* Witness: an acceptance succeeded, its signal started a refresh for UserA
C34_Witness ==
  /\ hist.raised
  /\ calls = [pc |-> "done", status |-> "accepted"]
  /\ walletAddress = "rUserA"
  /\ \E r \in DOMAIN runs : runs[r].pc # "idle"

\* the active identity of tab c in the next state
C35_ActiveNext(c) ==
  IF sessionWallet'[c] # <<>> THEN sessionWallet'[c][1].classicAddress
  ELSE IF sessionStorage'[c] # "" THEN "r" \o sessionStorage'[c]
  ELSE IF localStorage'.seed # "" THEN "r" \o localStorage'.seed ELSE ""

C35_Active(c) ==
  IF sessionWallet[c] # <<>> THEN sessionWallet[c][1].classicAddress
  ELSE IF sessionStorage[c] # "" THEN "r" \o sessionStorage[c]
  ELSE IF localStorage.seed # "" THEN "r" \o localStorage.seed ELSE ""

\* C35: a call of createNewWallet, or of connectWallet with no saved
\* identity, changes nothing up to its request for a funded wallet; when the
\* funding fails the call rejects and again nothing changes: the tab-scope
\* identities, the saved identity, the recent list, the demo slots and every
\* tab's active identity are as they were.
C35_FailedFundingChangesNothing ==
  [][\A c \in DOMAIN hist :
       (hist'[c] # hist[c] /\ hist'[c].funding \in {"pending", "failed"})
         => /\ hist'[c].funding = "failed" => hist'[c].outcome = "rejected"
            /\ sessionStorage' = sessionStorage
            /\ localStorage' = localStorage
            /\ sessionWallet' = sessionWallet
            /\ \A d \in DOMAIN hist : C35_ActiveNext(d) = C35_Active(d)]_vars

\* Witness: with wallet s1 active and saved, a createNewWallet call of tab A
\* has failed
C35_Witness ==
  /\ hist["A"] = [funding |-> "failed", outcome |-> "rejected"]
  /\ localStorage.seed = "s1"
  /\ sessionStorage["A"] = "s1"
  /\ localStorage.user1 = "rs1"

\* a ledger entry that fails the structural validation
C36_Invalid(o) ==
  \/ o.t # "object"
  \/ o.v.LedgerEntryType # [t |-> "string", v |-> "Credential"]
  \/ o.v.index.t # "string" \/ o.v.Subject.t # "string"
  \/ o.v.Issuer.t # "string" \/ o.v.CredentialType.t # "string"

\* the returned credential c carries the index of entry o
C36_BuiltFrom(c, o) ==
  /\ o.t = "object" /\ o.v.index.t = "string"
  /\ c.index = o.v.index.v

\* C36: an entry that fails the structural validation (its entry type is not
\* Credential, or its index, subject, issuer or credential type is not a
\* string) is never what the resolver returns, and is never taken as the
\* match that ends the search: an answer of the subject's objects holding
\* only such entries is followed by the query of the issuer's objects.
C36_InvalidEntriesNeverReturned ==
  /\ []((finds[1].pc = "done" /\ finds[1].result # <<>>)
          => \A i \in 1..Len(finds[1].last) :
               C36_Invalid(finds[1].last[i])
                 => ~C36_BuiltFrom(finds[1].result[1], finds[1].last[i]))
  /\ [][(finds[1].pc = "subject" /\ finds[1].resp # <<>>
           /\ finds'[1].pc \notin {"subject", "failed"}
           /\ \A i \in 1..Len(finds[1].resp[1]) : C36_Invalid(finds[1].resp[1][i]))
          => /\ finds'[1].pc = "issuer"
             /\ finds'[1].result = <<>>]_vars

\* Witness: the answer held an entry of another type carrying all the
\* requested values before the credential; the credential was returned
C36_Witness ==
  /\ finds[1].pc = "done"
  /\ finds[1].last = <<NotCredential, IssuedCred(UserA, Undefined)>>
  /\ finds[1].result # <<>>
  /\ finds[1].result[1].index = "CRED-rUserA"

\* C37: a state derived for one identity is never shown while another
\* identity is active: whenever the state shown is a derived one (neither
\* disconnected nor loading), the refresh it was set from ran for the
\* wallet address that is active now.
C37_NoStateOfAnotherIdentity ==
  state.kind \notin {"disconnected", "loading"} => hist.owner = walletAddress

\* what the hook does keep: a derived state is shown only with an active
\* identity
C37_DerivedStateOnlyWithIdentity ==
  [][(walletAddress' = "" /\ walletAddress # "") => state'.kind = "disconnected"]_vars

\* C38: isRefreshing is true exactly while at least one activation of
\* refresh for the active identity is between its start and its end.
C38_RefreshingIffInFlight ==
  isRefreshing <=> \E r \in DOMAIN runs :
                     runs[r].pc # "idle" /\ runs[r].wallet = walletAddress

\* what the hook does keep: isRefreshing is true only while some activation
\* of refresh, for whatever identity, is between its start and its end
C38_RefreshingOnlyInFlight ==
  isRefreshing => \E r \in DOMAIN runs : runs[r].pc # "idle"

\* C39: the in-flight marker is set only while a connect attempt is pending,
\* and it is that attempt's; whenever no attempt is pending the marker is
\* clear, so that a call made after the connection dropped issues a new
\* underlying connect.
C39_MarkerOnlyWhilePending ==
  /\ [](/\ connectInFlight # 0 => connectInFlight \in connectOps
        /\ connectOps = {} => connectInFlight = 0)
  /\ [][(/\ ~connected /\ connectOps = {}
         /\ \E c \in DOMAIN calls : calls[c].st = "idle" /\ calls'[c].st # "idle")
        => /\ Cardinality(connectOps') = 1
           /\ connectInFlight' \in connectOps'
           /\ \E c \in DOMAIN calls : calls'[c].st = "waiting"]_vars

\* Witness: the connection was established and dropped; a call made since
\* awaits a new attempt
C39_Witness ==
  /\ connectLog.prev = "ok"
  /\ ~connected
  /\ connectInFlight # 0 /\ connectInFlight \in connectOps
  /\ \E c \in DOMAIN calls : calls[c].st = "waiting"

\* the observation just made dispatched the demo-slots-changed event
C40_Notified ==
  \E i \in 1..Len(hist'.effects) :
    /\ hist'.effects[i].op = "dispatchEvent"
    /\ hist'.effects[i].name = "cerberus:demo-users-changed"

\* C40: after any sequence of observations from empty demo slots, the two
\* slots never hold the same address and slot 2 is never filled while slot 1
\* is empty; observing an address that is in either slot changes neither
\* slot and dispatches no demo-slots-changed event.
C40_SlotsDistinctAndQuietOnRepeat ==
  /\ [](/\ localStorage.user1 # "" => localStorage.user1 # localStorage.user2
        /\ localStorage.user2 # "" => localStorage.user1 # "")
  /\ [][(hist'.address # ""
           /\ hist'.address \in {localStorage.user1, localStorage.user2})
          => /\ localStorage'.user1 = localStorage.user1
             /\ localStorage'.user2 = localStorage.user2
             /\ ~C40_Notified]_vars

\* Witness: with both slots filled, the address of slot 1 was observed
\* again: the slots are as they were and the observation only rewrote the
\* recent list
C40_Witness ==
  /\ localStorage.user1 = "rA" /\ localStorage.user2 = "rB"
  /\ hist.address = "rA"
  /\ localStorage.recent = <<"rA", "rB">>
  /\ Len(hist.effects) = 2
  /\ hist.effects[1].name = "recent"

=============================================================================
